---- MODULE Spec2Model ----
EXTENDS Integers, Sequences, FiniteSets, TLC

(***************************************************************************)
(* Reconciliation of provider DNS / load-balancer state into the local     *)
(* store, as implemented by                                                *)
(*   contrib/sync_cloudflare_records.py            (single credential)     *)
(*   contrib/sync_cloudflare_records_multi_user.py (several credentials)   *)
(*   contrib/sync_pools_direct.py                  (pool / origin linker)  *)
(*                                                                         *)
(* One process runs at a time (proc).  The store is modelled as the        *)
(* committed tables (db) and the view of the open connection (tx):         *)
(* commit copies tx to db, rollback and close copy db to tx.  Auto         *)
(* increment counters (nextId) are not transactional, as in InnoDB.        *)
(*                                                                         *)
(* Faults (where the environment has them): every provider request may     *)
(* fail, every database statement may fail, and a running process may be   *)
(* interrupted.                                                            *)
(***************************************************************************)

None == "None"

\* ---------------------------------------------------------------- bounds
NumHosts == 3
MaxRuns == 2        \* runs of the two-zone configuration (Spec)
MaxWideRuns == 1    \* runs of the four-zone configuration (SpecWide)
MaxPages == 3       \* the largest page count a listing response reports

VARIABLES
    hosts,        \* DatabaseConfig.hosts: the configured candidates, in order
    policy,       \* DatabaseConfig.policy, as load_db_config leaves it
    accept,       \* environment: the candidates that accept a connection
    cm,           \* DatabaseConnectionManager.connect: its frame
    account_ids,  \* CloudflareConfig.account_ids (or --accounts)
    plan,         \* the scripts the external scheduler starts, in order
    faults,       \* whether requests and statements may fail in this environment
    files,        \* what cloudflare.ini and mydns.conf hold besides the above
    cf,           \* the provider's state during the current run
    db,           \* the committed tables
    tx,           \* the tables as the open connection sees them
    nextId,       \* the AUTO_INCREMENT counter of each table
    clock,        \* NOW(): advances with every process start
    runs,         \* processes started so far
    proc,         \* the script that is running: "none", "sync", "multi", "pools"
    main,         \* sync_cloudflare_records.main / sync_accounts / sync_zone frame
    mu,           \* sync_cloudflare_records_multi_user.main frame
    lk,           \* sync_pools_direct.sync_pools_for_zone frame
    rq,           \* CloudflareClient.request: the response it receives and how it ends
    pg,           \* CloudflareClient.paginated_get: its frame and the listing it reads
    hist          \* observations of the current run (what happened to each zone)

vars == <<hosts, policy, accept, cm, account_ids, plan, faults, files, cf, db, tx, nextId, clock,
          runs, proc, main, mu, lk, rq, pg, hist>>

cfgVars == <<hosts, policy, accept, account_ids, plan, faults, files>>
storeVars == <<db, tx, nextId>>

\* ------------------------------------------------------------- helpers
SeqToSet(s) == {s[i] : i \in 1..Len(s)}

Perms(s) ==
    {[i \in 1..Len(s) |-> s[p[i]]] : p \in Permutations(1..Len(s))}

Rotate(s, start) == SubSeq(s, start + 1, Len(s)) \o SubSeq(s, 1, start)

\* ------------------------------------------------- database host selection
VALID_POLICIES ==
    {"sequential", "round-robin", "roundrobin", "rr", "least-used", "least_used", "least"}

\* The policy strings a configuration file may carry (after strip().lower()).
RawPolicies == VALID_POLICIES \cup {"fastest", ""}

\* A loader that answers an unknown policy string with round-robin.
load_db_config_policy_rr(raw) ==
    IF raw \notin VALID_POLICIES THEN "rr" ELSE raw

load_db_config_policy(raw) ==
    IF raw \notin VALID_POLICIES THEN "sequential" ELSE raw

\* The two configuration files: cloudflare.ini holds an api_token ("token") or
\* neither a token nor an email and api_key pair ("incomplete"); mydns.conf holds
\* user, password and database ("complete") or lacks one of them ("missing").
\* A cloudflare.ini without cf_account_ids is an empty account_ids.  mydns.conf
\* also holds the db-host-policy string (after strip().lower()).
CompleteFiles == [cloudflare |-> "token", mydns |-> "complete", db_host_policy |-> "sequential"]
ConfigFiles ==
    [cloudflare : {"token", "incomplete"}, mydns : {"complete", "missing"},
     db_host_policy : {"sequential"}]

\* if not account_ids: raise ConfigError("cf_account_ids missing ...")
\* if not api_token and (not email or not api_key): raise ConfigError(...)
load_cloudflare_config_raises(ids, f) == ids = <<>> \/ f.cloudflare = "incomplete"

\* if not user or password is None or not database: raise ConfigError(...)
load_db_config_raises(f) == f.mydns = "missing"

ConfiguredHosts == [i \in 1..NumHosts |-> i]

\* An ordering that leaves out the last configured host.
ordered_hosts_but_last(h, p) == {SubSeq(h, 1, Len(h) - 1)}

\* An ordering that shuffles the candidates under every policy.
ordered_hosts_shuffled(h, p) == Perms(h)

\* The orderings ordered_hosts may return (random.randint / random.shuffle).
ordered_hosts(h, p) ==
    IF p \in {"round-robin", "roundrobin", "rr"} /\ h # <<>>
    THEN {Rotate(h, start) : start \in 0..(Len(h) - 1)}
    ELSE IF p \in {"least-used", "least_used", "least"}
         THEN Perms(h)
         ELSE {h}


\* ------------------------------------------------ CloudflareClient.request
\* What resp.json() makes of the body: no JSON at all; JSON that is not an object
\* (an array, a string, a number, null); or an object whose "success" key is
\* true, false or absent.
NotJson == [json |-> FALSE, object |-> FALSE, success |-> "missing"]
NotObject == [json |-> TRUE, object |-> FALSE, success |-> "missing"]
Object(success) == [json |-> TRUE, object |-> TRUE, success |-> success]
Bodies == {NotJson, NotObject} \cup {Object(f) : f \in {"true", "false", "missing"}}

\* The status codes of the responses considered: the classes 2xx to 5xx, four
\* codes each (a 3xx response reaches request when it carries no Location to
\* follow, as 300 and 304 do).
Statuses == {c * 100 + r : c \in 2..5, r \in {0, 1, 4, 99}}

\* requests.request either raises RequestException (sent = FALSE) or returns a
\* response with a status code and a body.
NoResponse == [sent |-> FALSE, status_code |-> 0, body |-> NotJson]
Responses ==
    {NoResponse} \cup {[sent |-> TRUE, status_code |-> c, body |-> b] : c \in Statuses, b \in Bodies}

Returned == [kind |-> "return", type |-> "dict"]
Raised(type) == [kind |-> "raise", type |-> type]

\* The threshold of "resp.status_code >= 400".
ErrorStatus == 400

\* request: RequestException and ValueError become CloudflareError; the test
\* "resp.status_code >= 400 or not decoded.get('success', False)" and the message
\* "decoded.get('errors') or ..." call .get on whatever the body decoded to.
request(resp) ==
    IF ~resp.sent THEN Raised("CloudflareError")
    ELSE IF ~resp.body.json THEN Raised("CloudflareError")
    ELSE IF ~resp.body.object THEN Raised("AttributeError")
    ELSE IF resp.status_code >= ErrorStatus \/ resp.body.success # "true"
         THEN Raised("CloudflareError")
         ELSE Returned

RqIdle == [st |-> "idle", resp |-> NoResponse, out |-> Returned]

RequestCall ==
    /\ rq.st = "call"
    /\ rq' = [rq EXCEPT !.st = "done", !.out = request(rq.resp)]
    /\ UNCHANGED <<cfgVars, pg, cm, cf, storeVars, clock, runs, proc, main, mu, lk, hist>>

\* ------------------------------------------ CloudflareClient.paginated_get
\* result_info of a response: total_pages with a value, or no such key.
Info(n) == [has |-> TRUE, total_pages |-> n]
NoInfo == [has |-> FALSE, total_pages |-> 0]

\* A listing as the provider serves it: what the response to each page reports as
\* total_pages, and the page (if any: 0 is none) whose "result" is null.
Listings ==
    [info : [1..MaxPages -> {NoInfo} \cup {Info(n) : n \in 0..MaxPages}],
     null_page : 0..MaxPages]

\* The items of page k.
Batch(k) == [i \in 1..k |-> [page |-> k, item |-> i]]

\* batch = decoded.get("result") or []
result_or_empty(listing, k) == IF listing.null_page = k THEN <<>> ELSE Batch(k)

\* A reading of result_info that takes a missing total_pages for two pages.
total_pages_absent_is_two(info) == IF info.has THEN info.total_pages ELSE 2

\* total_pages = info.get("total_pages") or 0
total_pages(info) == IF info.has THEN info.total_pages ELSE 0

\* A loop test that stops one page early.
last_page_one_early(page, tp) == tp = 0 \/ page + 1 >= tp

\* if not total_pages or page >= int(total_pages): break
last_page(page, tp) == tp = 0 \/ page >= tp

\* paginated_get is not running.
PgIdle == [st |-> "idle", listing |-> [info |-> <<>>, null_page |-> 0], page |-> 1,
           results |-> <<>>, asked |-> <<>>]

\* paginated_get called for a listing.
PgCall(listing) == [PgIdle EXCEPT !.st = "call", !.listing = listing]

\* results = []; page = 1
PagedGetBegin ==
    /\ pg.st = "call"
    /\ pg' = [pg EXCEPT !.st = "loop", !.page = 1, !.results = <<>>, !.asked = <<>>]
    /\ UNCHANGED <<cfgVars, rq, cm, cf, storeVars, clock, runs, proc, main, mu, lk, hist>>

\* One pass of "while True": the request for the current page (which may raise
\* CloudflareError), results.extend(batch), the test, page += 1.
PagedGetRequest ==
    /\ pg.st = "loop"
    /\ \/ LET k  == pg.page
              tp == total_pages(pg.listing.info[k])
          IN  pg' = [pg EXCEPT !.asked = Append(@, k),
                               !.results = @ \o result_or_empty(pg.listing, k),
                               !.st = IF last_page(k, tp) THEN "returned" ELSE "loop",
                               !.page = IF last_page(k, tp) THEN @ ELSE @ + 1]
       \/ /\ faults
          /\ pg' = [pg EXCEPT !.asked = Append(@, pg.page), !.st = "raised"]
    /\ UNCHANGED <<cfgVars, rq, cm, cf, storeVars, clock, runs, proc, main, mu, lk, hist>>

CmIdle == [st |-> "idle", ordered |-> <<>>, tried |-> <<>>, conn |-> 0]

\* connect(): for host, port in self.ordered_hosts()
ConnectBegin ==
    /\ cm.st = "call"
    /\ \E o \in ordered_hosts(hosts, policy) :
          cm' = [st |-> "loop", ordered |-> o, tried |-> <<>>, conn |-> 0]
    /\ UNCHANGED <<cfgVars, rq, pg, cf, storeVars, clock, runs, proc, main, mu, lk, hist>>

\* A loop body that notes the connection it obtained but goes on to the next
\* candidate instead of returning.
ConnectAttemptWithoutReturn(c, acc) ==
    LET h == c.ordered[Len(c.tried) + 1]
    IN  IF h \in acc
        THEN [c EXCEPT !.tried = Append(@, h), !.conn = h]
        ELSE [c EXCEPT !.tried = Append(@, h)]

\* One pass of the loop body: pymysql.connect returns or raises.
ConnectAttemptResult(c, acc) ==
    LET h == c.ordered[Len(c.tried) + 1]
    IN  IF h \in acc
        THEN [c EXCEPT !.tried = Append(@, h), !.conn = h, !.st = "returned"]
        ELSE [c EXCEPT !.tried = Append(@, h)]

ConnectTry ==
    /\ cm.st = "loop"
    /\ Len(cm.tried) < Len(cm.ordered)
    /\ cm' = ConnectAttemptResult(cm, accept)
    /\ UNCHANGED <<cfgVars, rq, pg, cf, storeVars, clock, runs, proc, main, mu, lk, hist>>

\* raise ConfigError("Unable to connect to any DB host")
ConnectExhausted ==
    /\ cm.st = "loop"
    /\ Len(cm.tried) = Len(cm.ordered)
    /\ cm' = [cm EXCEPT !.st = "raised"]
    /\ UNCHANGED <<cfgVars, rq, pg, cf, storeVars, clock, runs, proc, main, mu, lk, hist>>


\* ------------------------------------------------------ provider snapshots
Z(id, name, acct) == [id |-> id, name |-> name, account |-> acct]
Rec(id, c) == [id |-> id, content |-> c]
LB(id, pools) == [id |-> id, default_pools |-> pools]
Acct(id, name) == [present |-> TRUE, id |-> id, name |-> name]
NoAcct == [present |-> FALSE, id |-> None, name |-> None]

\* JSON values of a load balancer's default_pools attribute.
JNull == [t |-> "null"]
JList(ids) == [t |-> "list", v |-> ids]
\* A JSON string is characterised by the pool ids that occur in its text.
JStr(ids) == [t |-> "str", v |-> ids]

Accounts == {"a1", "a2", "a3"}
ZoneIds == {"zA", "zB", "zC", "zD", "zE"}
PoolIds == {"p1", "p2", "p3"}

\* The detail of a pool as GET /accounts/{id}/load_balancers/pools/{pool} returns it,
\* or the absence of a usable answer (an HTTP error or success = false).
Origin(name, address) == [name |-> name, address |-> address]
Pool(name, origins) == [found |-> TRUE, name |-> name, origins |-> origins]
NoPool == [found |-> FALSE]

\* Account a1 holds zones A, B, C; account a2 holds zone D, which has five
\* records and two load balancers that share pool p1; account a3 holds zone E.
\* The provider has no pool p3.
SnapFull ==
    [zones   |-> [a \in Accounts |->
                    CASE a = "a1" -> <<Z("zA", "a.example", Acct("a1", "Acme")),
                                       Z("zB", "b.example", NoAcct),
                                       Z("zC", "c.example", Acct("a1", None))>>
                      [] a = "a2" -> <<Z("zD", "d.example", Acct("a2", "Beta"))>>
                      [] OTHER    -> <<Z("zE", "e.example", NoAcct)>>],
     records |-> [z \in ZoneIds |->
                    CASE z = "zA" -> <<Rec("r1", "v1"), Rec("r0", "v1")>>
                      [] z = "zB" -> <<Rec("r2", "v1")>>
                      [] z = "zC" -> <<>>
                      [] z = "zD" -> <<Rec("d1", "v1"), Rec("d2", "v1"), Rec("d3", "v1"),
                                       Rec("d4", "v1"), Rec("d5", "v1")>>
                      [] OTHER    -> <<Rec("r8", "v1")>>],
     lbs     |-> [z \in ZoneIds |->
                    CASE z = "zA" -> <<LB("lb1", JNull)>>
                      [] z = "zD" -> <<LB("lb2", JList(<<"p1", "p2">>)),
                                       LB("lb3", JList(<<"p1", "p3">>))>>
                      [] OTHER    -> <<>>],
     pools   |-> [p \in PoolIds |->
                    CASE p = "p1" -> Pool("pool-one", <<Origin("o1", "10.0.0.1"),
                                                        Origin("o2", "10.0.0.2")>>)
                      [] p = "p2" -> Pool("pool-two", <<Origin("o3", "10.0.0.3")>>)
                      [] OTHER    -> NoPool]]

\* A later provider state: zone D lost two records and its load balancers and
\* one of its records changed; zone E is gone; two entries carry no id;
\* zone C holds a record without content and a load balancer whose default_pools
\* is a string.
SnapLater ==
    [zones   |-> [a \in Accounts |->
                    CASE a = "a1" -> <<Z("zA", "a.example", Acct("a1", "Acme")),
                                       Z(None, "broken", NoAcct),
                                       Z("zC", "c.example", NoAcct)>>
                      [] a = "a2" -> <<Z("zD", "d2.example", Acct("a2", "Beta Ltd"))>>
                      [] OTHER    -> <<Z(None, "nameless", NoAcct)>>],
     records |-> [z \in ZoneIds |->
                    CASE z = "zA" -> <<Rec("r1", "v2")>>
                      [] z = "zC" -> <<Rec("r9", "v1"), Rec("r10", None)>>
                      [] z = "zD" -> <<Rec("d1", "v1"), Rec("d3", "v2"), Rec("d5", "v1")>>
                      [] OTHER    -> <<>>],
     lbs     |-> [z \in ZoneIds |->
                    CASE z = "zC" -> <<LB("lb4", JStr(<<"p2">>))>>
                      [] OTHER    -> <<>>],
     pools   |-> [p \in PoolIds |->
                    CASE p = "p2" -> Pool("pool-two", <<Origin("o3", "10.0.0.9")>>)
                      [] OTHER    -> NoPool]]

Snapshots == {SnapFull, SnapLater}

\* A provider state for the pool linker: zone D has three load balancers, the
\* first with a string where the list of default pools should be (the text
\* contains the id p2), the other two with lists that share pool p1.
SnapPools ==
    [SnapFull EXCEPT
        !.records = [z \in ZoneIds |-> IF z = "zD" THEN <<Rec("d1", "v1")>> ELSE <<>>],
        !.lbs = [z \in ZoneIds |->
                   IF z = "zD"
                   THEN <<LB("lb5", JStr(<<"p2">>)),
                          LB("lb2", JList(<<"p1", "p2">>)),
                          LB("lb3", JList(<<"p1", "p3">>))>>
                   ELSE <<>>]]

\* ------------------------------------------------------------------ store
EmptyStore ==
    [accounts |-> {}, zones |-> {}, records |-> {}, lbs |-> {},
     pools |-> {}, origins |-> {}, credentials |-> {}]

FirstIds ==
    [accounts |-> 1, zones |-> 1, records |-> 1, lbs |-> 1, pools |-> 1, origins |-> 1]

\* json.dumps / json.loads of a default_pools value: the column holds the text.
SqlNull == [null |-> TRUE]
json_dumps(v) == [null |-> FALSE, text |-> v]
json_loads(t) == t.text

HasZone(t, cf_zone_id) == \E r \in t.zones : r.cf_zone_id = cf_zone_id

ZoneLocalId(t, cf_zone_id) == (CHOOSE r \in t.zones : r.cf_zone_id = cf_zone_id).id

\* An account upsert that clears the table of every other account first.
upsert_account_alone(t, n, cf_account_id, name) ==
    [t |-> [t EXCEPT !.accounts =
               {[id |-> n.accounts, cf_account_id |-> cf_account_id, name |-> name]}],
     n |-> [n EXCEPT !.accounts = @ + 1], lastrowid |-> n.accounts]

\* INSERT INTO cloudflare_accounts ... ON DUPLICATE KEY UPDATE name, id = LAST_INSERT_ID(id)
\* (cf_account_id is the unique key).  Returns the tables, the counters, lastrowid.
upsert_account(t, n, cf_account_id, name) ==
    IF \E r \in t.accounts : r.cf_account_id = cf_account_id
    THEN LET old == CHOOSE r \in t.accounts : r.cf_account_id = cf_account_id
         IN  [t |-> [t EXCEPT !.accounts = (@ \ {old}) \cup {[old EXCEPT !.name = name]}],
              n |-> n, lastrowid |-> old.id]
    ELSE [t |-> [t EXCEPT !.accounts = @ \cup
                    {[id |-> n.accounts, cf_account_id |-> cf_account_id, name |-> name]}],
          n |-> [n EXCEPT !.accounts = @ + 1], lastrowid |-> n.accounts]

\* A zone upsert without "id = LAST_INSERT_ID(id)": an update reports no id.
upsert_zone_without_last_insert_id(t, n, account_id, zone) ==
    IF \E r \in t.zones : r.cf_zone_id = zone.id
    THEN LET old == CHOOSE r \in t.zones : r.cf_zone_id = zone.id
         IN  [t |-> [t EXCEPT !.zones = (@ \ {old}) \cup
                        {[old EXCEPT !.account_id = account_id, !.name = zone.name]}],
              n |-> n, lastrowid |-> 0]
    ELSE [t |-> [t EXCEPT !.zones = @ \cup
                    {[id |-> n.zones, account_id |-> account_id, cf_zone_id |-> zone.id,
                      name |-> zone.name, last_synced |-> 0]}],
          n |-> [n EXCEPT !.zones = @ + 1], lastrowid |-> n.zones]

\* A zone upsert in the manner of REPLACE INTO: the row of a zone already
\* present is deleted and a new one inserted under a new local id.
upsert_zone_replacing(t, n, account_id, zone) ==
    [t |-> [t EXCEPT !.zones = {r \in @ : r.cf_zone_id # zone.id} \cup
               {[id |-> n.zones, account_id |-> account_id, cf_zone_id |-> zone.id,
                 name |-> zone.name, last_synced |-> 0]}],
     n |-> [n EXCEPT !.zones = @ + 1], lastrowid |-> n.zones]

\* INSERT INTO cloudflare_zones ... ON DUPLICATE KEY UPDATE account_id, name, ...,
\* id = LAST_INSERT_ID(id)  (cf_zone_id is the unique key; last_synced is not touched).
upsert_zone(t, n, account_id, zone) ==
    IF \E r \in t.zones : r.cf_zone_id = zone.id
    THEN LET old == CHOOSE r \in t.zones : r.cf_zone_id = zone.id
         IN  [t |-> [t EXCEPT !.zones = (@ \ {old}) \cup
                        {[old EXCEPT !.account_id = account_id, !.name = zone.name]}],
              n |-> n, lastrowid |-> old.id]
    ELSE [t |-> [t EXCEPT !.zones = @ \cup
                    {[id |-> n.zones, account_id |-> account_id, cf_zone_id |-> zone.id,
                      name |-> zone.name, last_synced |-> 0]}],
          n |-> [n EXCEPT !.zones = @ + 1], lastrowid |-> n.zones]

\* A replace step whose DELETE removes nothing.
delete_no_records(rows, zone_id) == rows

\* DELETE FROM cloudflare_records WHERE zone_id = %s
delete_zone_records(rows, zone_id) == {r \in rows : r.zone_id # zone_id}

\* cursor.executemany(insert_sql, payloads): one row per fetched record
insert_zone_records(rows, first, zone_id, records) ==
    rows \cup {[id |-> first + i - 1, zone_id |-> zone_id,
                cf_record_id |-> records[i].id, content |-> records[i].content]
               : i \in 1..Len(records)}

\* DELETE FROM cloudflare_load_balancers WHERE zone_id = %s.  Pool rows belong to
\* their load balancer and origin rows to their pool: they go with it.
DeleteCascade(t, zone_id) ==
    LET gone_lbs   == {r.id : r \in {x \in t.lbs : x.zone_id = zone_id}}
        gone_pools == {r.id : r \in {x \in t.pools : x.lb_id \in gone_lbs}}
    IN  [t EXCEPT !.pools = {r \in @ : r.lb_id \notin gone_lbs},
                  !.origins = {r \in @ : r.pool_id \notin gone_pools}]

\* A replace step whose load-balancer DELETE removes nothing.
keep_zone_load_balancers(t, zone_id) == t

\* A DELETE that removes only the oldest load balancer of the zone.
delete_oldest_zone_load_balancer(t, zone_id) ==
    LET own == {r \in t.lbs : r.zone_id = zone_id}
    IN  IF own = {} THEN t
        ELSE [t EXCEPT !.lbs = @ \ {CHOOSE r \in own : \A o \in own : r.id <= o.id}]

\* A DELETE that removes the zone's load balancers and leaves what hangs off them.
delete_zone_load_balancers_only(t, zone_id) ==
    [t EXCEPT !.lbs = {r \in @ : r.zone_id # zone_id}]

\* DELETE FROM cloudflare_load_balancers WHERE zone_id = %s
delete_zone_load_balancers(t, zone_id) ==
    [DeleteCascade(t, zone_id) EXCEPT !.lbs = {r \in @ : r.zone_id # zone_id}]

insert_zone_load_balancers(rows, first, zone_id, balancers) ==
    rows \cup {[id |-> first + i - 1, zone_id |-> zone_id,
                cf_lb_id |-> balancers[i].id,
                default_pools |-> IF balancers[i].default_pools # JNull
                                  THEN json_dumps(balancers[i].default_pools)
                                  ELSE SqlNull]
               : i \in 1..Len(balancers)}

\* A sync_zone whose UPDATE of last_synced changes no row.
mark_synced_nowhere(rows, zone_id, now) == rows

\* An UPDATE without its WHERE clause: every zone is stamped.
mark_synced_everywhere(rows, zone_id, now) == {[r EXCEPT !.last_synced = now] : r \in rows}

\* UPDATE cloudflare_zones SET last_synced = NOW() WHERE id = %s
mark_synced(rows, zone_id, now) ==
    {IF r.id = zone_id THEN [r EXCEPT !.last_synced = now] ELSE r : r \in rows}


\* --------------------------------------- sync_cloudflare_records.py: main
ZeroSummary == [zones |-> 0, records |-> 0, load_balancers |-> 0]

MainIdle ==
    [pc |-> "idle", exit |-> -1, ai |-> 1, zones |-> <<>>, zi |-> 1,
     db_account_id |-> 0, records |-> <<>>, balancers |-> <<>>, local_zone_id |-> 0,
     record_count |-> 0, lb_count |-> 0, summary |-> ZeroSummary]

\* What the current run did: per provider zone id the way its sync ended
\* ("none", "committed", "rolledback", "db_error"), the zones whose load-balancer
\* listing failed, the accounts whose zone listing failed, whether an exception
\* left sync_accounts ("no", "db", "interrupt"), and the committed tables as the
\* run found them.
NoHist ==
    [outcome |-> [z \in ZoneIds |-> "none"], lb_failed |-> {}, list_failed |-> {},
     unwound |-> "no", before |-> EmptyStore,
     \* multi-credential script: the accounts and credentials handed to
     \* sync_cloudflare_account, the credentials whose call raised or returned,
     \* those whose status UPDATE failed, and whether load_user_credentials ran
     \* its SELECT
     accounts_tried |-> {}, creds_tried |-> {}, creds_raised |-> {},
     creds_returned |-> {}, status_lost |-> {}, selected |-> FALSE,
     \* the provider requests and database writes of the run, in the order made,
     \* and the credentials (0: the global one) of the calls of
     \* sync_cloudflare_account, in the order made
     log |-> <<>>, calls |-> <<>>]

\* The observations with one more entry in the log of the run.
Logged(h, ev, unit) == [h EXCEPT !.log = Append(@, [ev |-> ev, unit |-> unit])]

CurAccount == account_ids[main.ai]
CurZone == main.zones[main.zi]

\* The external scheduler starts the script; the provider is in one of `snaps`.
InvokeSync(snaps) ==
    /\ proc = "none"
    /\ runs < Len(plan) /\ plan[runs + 1] = "sync"
    /\ \E s \in snaps : cf' = s
    /\ proc' = "sync"
    /\ runs' = runs + 1
    /\ clock' = clock + 1
    /\ main' = [MainIdle EXCEPT !.pc = "start"]
    /\ cm' = CmIdle
    /\ hist' = [NoHist EXCEPT !.before = db]
    /\ UNCHANGED <<cfgVars, rq, pg, storeVars, mu, lk>>

\* try: cf_cfg = load_cloudflare_config(...); db_cfg = load_db_config(...)
\* except ConfigError: return 1
MainLoadConfig ==
    /\ proc = "sync" /\ main.pc = "start"
    /\ IF load_cloudflare_config_raises(account_ids, files) \/ load_db_config_raises(files)
       THEN /\ main' = [main EXCEPT !.pc = "exit", !.exit = 1]
            /\ proc' = "none"
       ELSE /\ main' = [main EXCEPT !.pc = "configured"]
            /\ UNCHANGED proc
    /\ UNCHANGED <<cfgVars, rq, pg, cm, cf, storeVars, clock, runs, mu, lk, hist>>

\* conn = db_manager.connect()
MainConnect ==
    /\ proc = "sync" /\ main.pc = "configured"
    /\ cm' = [CmIdle EXCEPT !.st = "call"]
    /\ main' = [main EXCEPT !.pc = "connect"]
    /\ UNCHANGED <<cfgVars, rq, pg, cf, storeVars, clock, runs, proc, mu, lk, hist>>

MainConnected ==
    /\ proc = "sync" /\ main.pc = "connect" /\ cm.st = "returned"
    /\ main' = [main EXCEPT !.pc = "accounts"]
    /\ tx' = db
    /\ UNCHANGED <<cfgVars, rq, pg, cm, cf, db, nextId, clock, runs, proc, mu, lk, hist>>

\* except ConfigError: return 1
MainConnectFailed ==
    /\ proc = "sync" /\ main.pc = "connect" /\ cm.st = "raised"
    /\ main' = [main EXCEPT !.pc = "exit", !.exit = 1]
    /\ proc' = "none"
    /\ UNCHANGED <<cfgVars, rq, pg, cm, cf, storeVars, clock, runs, mu, lk, hist>>

\* An exception that no handler of sync_accounts catches: it leaves the zone loop,
\* main's finally closes the connection (the open transaction is discarded) and
\* the interpreter exits with status 1.
Unwind(cause) ==
    /\ faults
    /\ main' = [MainIdle EXCEPT !.pc = "exit", !.exit = 1]
    /\ tx' = db
    /\ proc' = "none"
    /\ hist' = [hist EXCEPT !.unwound = cause]
    /\ UNCHANGED <<cfgVars, rq, pg, cm, cf, db, nextId, clock, runs, mu, lk>>

\* The same, for an exception raised inside sync_zone for the current zone.
UnwindInZone(cause) ==
    /\ faults
    /\ main' = [MainIdle EXCEPT !.pc = "exit", !.exit = 1]
    /\ tx' = db
    /\ proc' = "none"
    /\ hist' = [hist EXCEPT !.unwound = cause, !.outcome[CurZone.id] = "db_error"]
    /\ UNCHANGED <<cfgVars, rq, pg, cm, cf, db, nextId, clock, runs, mu, lk>>

\* zones = cf_client.list_zones(account_id); except CloudflareError: continue
\* A zone listing that leaves out the zones the store already holds.
list_zones_not_stored(account_id) ==
    LET keep[i \in 0..Len(cf.zones[account_id])] ==
            IF i = 0 THEN <<>>
            ELSE IF HasZone(tx, cf.zones[account_id][i].id)
                 THEN keep[i - 1]
                 ELSE Append(keep[i - 1], cf.zones[account_id][i])
    IN  keep[Len(cf.zones[account_id])]

\* list_zones: the zones of the account as the provider lists them
list_zones(account_id) == cf.zones[account_id]

ListZones ==
    /\ proc = "sync" /\ main.pc = "accounts" /\ main.ai <= Len(account_ids)
    /\ \/ /\ main' = IF list_zones(CurAccount) = <<>>
                     THEN [main EXCEPT !.ai = @ + 1]
                     ELSE [main EXCEPT !.zones = list_zones(CurAccount), !.zi = 1,
                                       !.pc = "zones"]
          /\ hist' = Logged(hist, "list_zones", CurAccount)
       \/ /\ faults
          /\ main' = [main EXCEPT !.ai = @ + 1]
          /\ hist' = Logged([hist EXCEPT !.list_failed = @ \cup {CurAccount}],
                            "list_zones", CurAccount)
    /\ UNCHANGED <<cfgVars, rq, pg, cm, cf, storeVars, clock, runs, proc, mu, lk>>

\* sync_accounts returns; finally: conn.close(); return 0
SyncAccountsReturn ==
    /\ proc = "sync" /\ main.pc = "accounts" /\ main.ai > Len(account_ids)
    /\ main' = [main EXCEPT !.pc = "exit", !.exit = 0]
    /\ tx' = db
    /\ proc' = "none"
    /\ UNCHANGED <<cfgVars, rq, pg, cm, cf, db, nextId, clock, runs, mu, lk, hist>>

ZonesDone ==
    /\ proc = "sync" /\ main.pc = "zones" /\ main.zi > Len(main.zones)
    /\ main' = [main EXCEPT !.ai = @ + 1, !.pc = "accounts"]
    /\ UNCHANGED <<cfgVars, rq, pg, cm, cf, storeVars, clock, runs, proc, mu, lk, hist>>

\* if not zone_id: continue
SkipZone ==
    /\ proc = "sync" /\ main.pc = "zones" /\ main.zi <= Len(main.zones)
    /\ CurZone.id = None
    /\ main' = [main EXCEPT !.zi = @ + 1]
    /\ UNCHANGED <<cfgVars, rq, pg, cm, cf, storeVars, clock, runs, proc, mu, lk, hist>>

account_data(zone, account_id) ==
    IF zone.account.present THEN zone.account
    ELSE [present |-> TRUE, id |-> account_id, name |-> "Cloudflare"]

account_name(data) == IF data.name # None THEN data.name ELSE "Cloudflare account"

\* upsert_account(...); conn.commit()
UpsertAccount ==
    /\ proc = "sync" /\ main.pc = "zones" /\ main.zi <= Len(main.zones)
    /\ CurZone.id # None
    /\ \/ LET d == account_data(CurZone, CurAccount)
              u == upsert_account(tx, nextId, d.id, account_name(d))
          IN  /\ tx' = u.t
              /\ db' = u.t
              /\ nextId' = u.n
              /\ main' = [main EXCEPT !.db_account_id = u.lastrowid, !.pc = "list_records"]
              /\ hist' = Logged(hist, "upsert_account", CurZone.id)
              /\ UNCHANGED <<cfgVars, rq, pg, cm, cf, clock, runs, proc, mu, lk>>
       \/ Unwind("db")

\* records = cf_client.list_records(zone["id"]);
\* except CloudflareError: conn.rollback(); continue
ListRecords ==
    /\ proc = "sync" /\ main.pc = "list_records"
    /\ \/ /\ main' = [main EXCEPT !.records = cf.records[CurZone.id], !.pc = "list_lbs"]
          /\ hist' = Logged(hist, "list_records", CurZone.id)
          /\ tx' = tx
       \/ /\ faults
          /\ tx' = db
          /\ main' = [main EXCEPT !.zi = @ + 1, !.pc = "zones"]
          /\ hist' = Logged(Logged([hist EXCEPT !.outcome[CurZone.id] = "rolledback"],
                                   "list_records", CurZone.id), "rollback", CurZone.id)
    /\ UNCHANGED <<cfgVars, rq, pg, cm, cf, db, nextId, clock, runs, proc, mu, lk>>

\* A listing of load balancers that hands on the provider's list even though
\* the request failed.
list_load_balancers_despite_failure(ok, zone_id) == cf.lbs[zone_id]

\* list_load_balancers: except CloudflareError: return []
list_load_balancers(ok, zone_id) == IF ok THEN cf.lbs[zone_id] ELSE <<>>

ListLoadBalancers ==
    /\ proc = "sync" /\ main.pc = "list_lbs"
    /\ \E ok \in {TRUE} \cup {~faults} :
          /\ main' = [main EXCEPT !.balancers = list_load_balancers(ok, CurZone.id),
                                  !.pc = "upsert_zone"]
          /\ hist' = Logged(IF ok THEN hist
                            ELSE [hist EXCEPT !.lb_failed = @ \cup {CurZone.id}],
                            "list_load_balancers", CurZone.id)
    /\ UNCHANGED <<cfgVars, rq, pg, cm, cf, storeVars, clock, runs, proc, mu, lk>>

\* local_zone_id = upsert_zone(cursor, account_id, zone)
UpsertZone ==
    /\ proc = "sync" /\ main.pc = "upsert_zone"
    /\ \/ LET u == upsert_zone(tx, nextId, main.db_account_id, CurZone)
          IN  /\ tx' = u.t
              /\ nextId' = u.n
              /\ main' = [main EXCEPT !.local_zone_id = u.lastrowid, !.pc = "delete_records"]
              /\ hist' = Logged(hist, "upsert_zone", CurZone.id)
              /\ UNCHANGED <<cfgVars, rq, pg, cm, cf, db, clock, runs, proc, mu, lk>>
       \/ UnwindInZone("db")

\* replace_zone_records: the DELETE; "if not records: return 0"
DeleteRecords ==
    /\ proc = "sync" /\ main.pc = "delete_records"
    /\ \/ /\ tx' = [tx EXCEPT !.records = delete_zone_records(@, main.local_zone_id)]
          /\ main' = IF main.records = <<>>
                     THEN [main EXCEPT !.record_count = 0, !.pc = "delete_lbs"]
                     ELSE [main EXCEPT !.pc = "insert_records"]
          /\ hist' = Logged(hist, "delete_records", CurZone.id)
          /\ UNCHANGED <<cfgVars, rq, pg, cm, cf, db, nextId, clock, runs, proc, mu, lk>>
       \/ UnwindInZone("db")

\* replace_zone_records: cursor.executemany(insert_sql, payloads); return len(records)
InsertRecords ==
    /\ proc = "sync" /\ main.pc = "insert_records"
    /\ \/ /\ tx' = [tx EXCEPT !.records =
                      insert_zone_records(@, nextId.records, main.local_zone_id, main.records)]
          /\ nextId' = [nextId EXCEPT !.records = @ + Len(main.records)]
          /\ main' = [main EXCEPT !.record_count = Len(main.records), !.pc = "delete_lbs"]
          /\ hist' = Logged(hist, "insert_records", CurZone.id)
          /\ UNCHANGED <<cfgVars, rq, pg, cm, cf, db, clock, runs, proc, mu, lk>>
       \/ UnwindInZone("db")

\* replace_zone_load_balancers: the DELETE; "if not balancers: return 0"
DeleteLoadBalancers ==
    /\ proc = "sync" /\ main.pc = "delete_lbs"
    /\ \/ /\ tx' = delete_zone_load_balancers(tx, main.local_zone_id)
          /\ main' = IF main.balancers = <<>>
                     THEN [main EXCEPT !.lb_count = 0, !.pc = "mark_synced"]
                     ELSE [main EXCEPT !.pc = "insert_lbs"]
          /\ hist' = Logged(hist, "delete_load_balancers", CurZone.id)
          /\ UNCHANGED <<cfgVars, rq, pg, cm, cf, db, nextId, clock, runs, proc, mu, lk>>
       \/ UnwindInZone("db")

InsertLoadBalancers ==
    /\ proc = "sync" /\ main.pc = "insert_lbs"
    /\ \/ /\ tx' = [tx EXCEPT !.lbs =
                      insert_zone_load_balancers(@, nextId.lbs, main.local_zone_id, main.balancers)]
          /\ nextId' = [nextId EXCEPT !.lbs = @ + Len(main.balancers)]
          /\ main' = [main EXCEPT !.lb_count = Len(main.balancers), !.pc = "mark_synced"]
          /\ hist' = Logged(hist, "insert_load_balancers", CurZone.id)
          /\ UNCHANGED <<cfgVars, rq, pg, cm, cf, db, clock, runs, proc, mu, lk>>
       \/ UnwindInZone("db")

\* UPDATE cloudflare_zones SET last_synced = NOW() ...
MarkSynced ==
    /\ proc = "sync" /\ main.pc = "mark_synced"
    /\ \/ /\ tx' = [tx EXCEPT !.zones = mark_synced(@, main.local_zone_id, clock)]
          /\ main' = [main EXCEPT !.pc = "commit"]
          /\ hist' = Logged(hist, "mark_synced", CurZone.id)
          /\ UNCHANGED <<cfgVars, rq, pg, cm, cf, db, nextId, clock, runs, proc, mu, lk>>
       \/ UnwindInZone("db")

\* conn.commit(); return record_count, lb_count
Commit ==
    /\ proc = "sync" /\ main.pc = "commit"
    /\ \/ /\ db' = tx
          /\ main' = [main EXCEPT !.pc = "synced"]
          /\ hist' = Logged([hist EXCEPT !.outcome[CurZone.id] = "committed"],
                            "commit", CurZone.id)
          /\ UNCHANGED <<cfgVars, rq, pg, cm, cf, tx, nextId, clock, runs, proc, mu, lk>>
       \/ UnwindInZone("db")

\* summary["zones"] += 1; summary["records"] += record_count; ...
add_summary(sm, record_count, lb_count) ==
    [zones |-> sm.zones + 1, records |-> sm.records + record_count,
     load_balancers |-> sm.load_balancers + lb_count]

Summarise ==
    /\ proc = "sync" /\ main.pc = "synced"
    /\ main' = [main EXCEPT !.summary = add_summary(@, main.record_count, main.lb_count),
                            !.zi = @ + 1, !.pc = "zones"]
    /\ UNCHANGED <<cfgVars, rq, pg, cm, cf, storeVars, clock, runs, proc, mu, lk, hist>>

\* A process-level interrupt while the script holds its connection.
Interrupt ==
    /\ proc = "sync"
    /\ main.pc \notin {"idle", "start", "configured", "connect", "exit"}
    /\ Unwind("interrupt")

SyncStep ==
    \/ MainLoadConfig \/ MainConnect \/ ConnectBegin \/ ConnectTry \/ ConnectExhausted
    \/ MainConnected \/ MainConnectFailed
    \/ ListZones \/ SyncAccountsReturn \/ ZonesDone \/ SkipZone \/ UpsertAccount
    \/ ListRecords \/ ListLoadBalancers \/ UpsertZone \/ DeleteRecords \/ InsertRecords
    \/ DeleteLoadBalancers \/ InsertLoadBalancers \/ MarkSynced \/ Commit \/ Summarise
    \/ Interrupt

\* ------------------------- sync_cloudflare_records_multi_user.py: credentials
\* A stored secret "iv:authTag:ciphertext": how many ':'-separated parts it has,
\* whether each part is hexadecimal, whether the tag authenticates the ciphertext.
Secret(parts, hex, auth) == [parts |-> parts, hex |-> hex, auth |-> auth]
GoodSecret == Secret(3, TRUE, TRUE)

\* The damaged secret the i-th stored credential may carry: a tag that does not
\* authenticate, a missing part, a part that is not hexadecimal.
BadSecret(i) ==
    CASE i = 1 -> Secret(3, TRUE, FALSE)
      [] i = 2 -> Secret(2, TRUE, TRUE)
      [] OTHER -> Secret(3, FALSE, TRUE)

\* decrypt_api_key returns the key, or raises (ValueError from the format check or
\* bytes.fromhex, or from decrypt_and_verify).
decrypt_raises(secret) ==
    \/ secret.parts # 3
    \/ ~secret.hex
    \/ ~secret.auth

\* The second stored credential is restricted to the domain of zone C.
CredAccount(i) == IF i = 2 THEN "a1" ELSE "a3"
CredDomain(i) == IF i = 2 THEN "c.example" ELSE None

CredRow(i, enabled, auto_sync, secret) ==
    [id |-> i, enabled |-> enabled, auto_sync |-> auto_sync, cf_api_key |-> secret,
     cf_account_id |-> CredAccount(i), cf_domain |-> CredDomain(i),
     last_sync_at |-> 0, last_sync_status |-> None, last_sync_error |-> None]

CredById(t, i) == CHOOSE c \in t.credentials : c.id = i

\* SELECT ... WHERE enabled = 1 AND auto_sync = 1 (rows in primary-key order)
RECURSIVE SortedIds(_)
SortedIds(ids) ==
    IF ids = {} THEN <<>>
    ELSE LET m == CHOOSE x \in ids : \A y \in ids : x <= y
         IN  <<m>> \o SortedIds(ids \ {m})

\* A query that leaves out the auto_sync condition.
select_enabled_credentials(t) ==
    SortedIds({c.id : c \in {x \in t.credentials : x.enabled}})

select_credentials(t) ==
    SortedIds({c.id : c \in {x \in t.credentials : x.enabled /\ x.auto_sync}})

\* A loader that gives up at the first secret that fails to decrypt.
RECURSIVE load_rows_until_failure(_, _)
load_rows_until_failure(t, ids) ==
    IF ids = <<>> THEN <<>>
    ELSE IF decrypt_raises(CredById(t, Head(ids)).cf_api_key)
         THEN <<>>
         ELSE <<Head(ids)>> \o load_rows_until_failure(t, Tail(ids))

\* for row in cursor.fetchall(): try: decrypt ... credentials.append(cred)
\*                               except Exception: continue
RECURSIVE load_rows(_, _)
load_rows(t, ids) ==
    IF ids = <<>> THEN <<>>
    ELSE IF decrypt_raises(CredById(t, Head(ids)).cf_api_key)
         THEN load_rows(t, Tail(ids))
         ELSE <<Head(ids)>> \o load_rows(t, Tail(ids))

load_user_credentials(t) == load_rows(t, select_credentials(t))

\* UPDATE dnsmanager_cloudflare_credentials SET last_sync_at = NOW(),
\*   last_sync_status = %s, last_sync_error = %s WHERE id = %s; db_conn.commit()
\* except Exception: the failure is logged and the row stays as it was.
update_credential_sync_status(t, credential_id, status, error, now, ok) ==
    IF ok
    THEN [t EXCEPT !.credentials =
            {IF c.id = credential_id
             THEN [c EXCEPT !.last_sync_at = now, !.last_sync_status = status,
                            !.last_sync_error = error]
             ELSE c : c \in @}]
    ELSE t

\* --------------------------------- sync_cloudflare_records_multi_user.py: main
MuIdle ==
    [pc |-> "idle", exit |-> -1, phase |-> "global", gi |-> 1, creds |-> <<>>, ci |-> 1,
     total_zones |-> 0, total_records |-> 0, total_errors |-> 0,
     \* sync_cloudflare_account: arguments and locals
     cf_account_id |-> None, cf_domain |-> None, credential_id |-> 0,
     account_db_id |-> 0, zones |-> <<>>, zi |-> 1, records |-> <<>>, ri |-> 1,
     zones_synced |-> 0, records_synced |-> 0, errors |-> 0]

MuZone == mu.zones[mu.zi]
MuRecord == mu.records[mu.ri]

InvokeMulti(snaps) ==
    /\ proc = "none"
    /\ runs < Len(plan) /\ plan[runs + 1] = "multi"
    /\ \E s \in snaps : cf' = s
    /\ proc' = "multi"
    /\ runs' = runs + 1
    /\ clock' = clock + 1
    /\ mu' = [MuIdle EXCEPT !.pc = "start"]
    /\ cm' = CmIdle
    /\ hist' = [NoHist EXCEPT !.before = db]
    /\ UNCHANGED <<cfgVars, rq, pg, storeVars, main, lk>>

\* The outermost handler of main: except Exception: return 1
MuAbort ==
    /\ mu' = [mu EXCEPT !.pc = "exit", !.exit = 1]
    /\ tx' = db
    /\ proc' = "none"

\* db_config = load_db_config(args.mydns_config); a ConfigError reaches the
\* outermost handler.
MuLoadDbConfig ==
    /\ proc = "multi" /\ mu.pc = "start"
    /\ IF load_db_config_raises(files)
       THEN MuAbort
       ELSE /\ mu' = [mu EXCEPT !.pc = "configured"]
            /\ UNCHANGED <<tx, proc>>
    /\ UNCHANGED <<cfgVars, rq, pg, cm, cf, db, nextId, clock, runs, main, lk, hist>>

\* db_conn = db_mgr.connect()
MuConnect ==
    /\ proc = "multi" /\ mu.pc = "configured"
    /\ cm' = [CmIdle EXCEPT !.st = "call"]
    /\ mu' = [mu EXCEPT !.pc = "connect"]
    /\ UNCHANGED <<cfgVars, rq, pg, cf, storeVars, clock, runs, proc, main, lk, hist>>

MuConnected ==
    /\ proc = "multi" /\ mu.pc = "connect" /\ cm.st = "returned"
    /\ mu' = [mu EXCEPT !.pc = "cf_config"]
    /\ tx' = db
    /\ UNCHANGED <<cfgVars, rq, pg, cm, cf, db, nextId, clock, runs, proc, main, lk, hist>>

MuConnectFailed ==
    /\ proc = "multi" /\ mu.pc = "connect" /\ cm.st = "raised"
    /\ MuAbort
    /\ UNCHANGED <<cfgVars, rq, pg, cm, cf, db, nextId, clock, runs, main, lk, hist>>

\* A call that hands on the id of the first stored credential whatever the unit.
call_with_first_credential(m, cf_account_id, cf_domain, credential_id) ==
    [m EXCEPT !.cf_account_id = cf_account_id, !.cf_domain = cf_domain,
              !.credential_id = 1, !.account_db_id = 0,
              !.zones = <<>>, !.zi = 1, !.records = <<>>, !.ri = 1,
              !.zones_synced = 0, !.records_synced = 0, !.errors = 0,
              !.pc = "account_lookup"]

\* The call sync_cloudflare_account(db_conn, cf_client, cf_account_id, cf_domain,
\* credential_id, user_id): zones_synced = records_synced = errors = 0
call_sync_cloudflare_account(m, cf_account_id, cf_domain, credential_id) ==
    [m EXCEPT !.cf_account_id = cf_account_id, !.cf_domain = cf_domain,
              !.credential_id = credential_id, !.account_db_id = 0,
              !.zones = <<>>, !.zi = 1, !.records = <<>>, !.ri = 1,
              !.zones_synced = 0, !.records_synced = 0, !.errors = 0,
              !.pc = "account_lookup"]

\* for cf_account_id in cf_config.account_ids: sync_cloudflare_account(..., None, None, None)
GlobalNext ==
    /\ proc = "multi" /\ mu.pc = "global" /\ mu.gi <= Len(account_ids)
    /\ mu' = call_sync_cloudflare_account([mu EXCEPT !.phase = "global"],
                                          account_ids[mu.gi], None, 0)
    /\ hist' = Logged([hist EXCEPT !.accounts_tried = @ \cup {account_ids[mu.gi]},
                                   !.calls = Append(@, 0)],
                      "call", account_ids[mu.gi])
    /\ UNCHANGED <<cfgVars, rq, pg, cm, cf, storeVars, clock, runs, proc, main, lk>>

\* user_creds = load_user_credentials(db_conn).  A failing SELECT is caught inside
\* and leaves the list empty.
LoadUsers ==
    /\ proc = "multi" /\ mu.pc = "global" /\ mu.gi > Len(account_ids)
    /\ \/ /\ mu' = [mu EXCEPT !.phase = "users", !.creds = load_user_credentials(tx),
                              !.ci = 1, !.pc = "users"]
          /\ hist' = [hist EXCEPT !.selected = TRUE]
       \/ /\ mu' = [mu EXCEPT !.phase = "users", !.creds = <<>>, !.ci = 1, !.pc = "users"]
          /\ hist' = hist
    /\ UNCHANGED <<cfgVars, rq, pg, cm, cf, storeVars, clock, runs, proc, main, lk>>

\* for cred in user_creds: sync_cloudflare_account(..., cred.cf_account_id,
\*                           cf_domain=cred.cf_domain, credential_id=cred.id, ...)
UsersNext ==
    /\ proc = "multi" /\ mu.pc = "users" /\ mu.ci <= Len(mu.creds)
    /\ LET c == CredById(tx, mu.creds[mu.ci])
       IN  mu' = call_sync_cloudflare_account(mu, c.cf_account_id, c.cf_domain, c.id)
    /\ hist' = Logged([hist EXCEPT !.creds_tried = @ \cup {mu.creds[mu.ci]},
                                   !.calls = Append(@, mu.creds[mu.ci])],
                      "call", CredById(tx, mu.creds[mu.ci]).cf_account_id)
    /\ UNCHANGED <<cfgVars, rq, pg, cm, cf, storeVars, clock, runs, proc, main, lk>>

\* db_conn.close(); return 0 if total_errors == 0 else 1
exit_code(total_errors) == IF total_errors = 0 THEN 0 ELSE 1

MuReturn ==
    /\ proc = "multi" /\ mu.pc = "users" /\ mu.ci > Len(mu.creds)
    /\ mu' = [mu EXCEPT !.pc = "exit", !.exit = exit_code(mu.total_errors)]
    /\ tx' = db
    /\ proc' = "none"
    /\ UNCHANGED <<cfgVars, rq, pg, cm, cf, db, nextId, clock, runs, main, lk, hist>>

\* ------------------------------------------------- sync_cloudflare_account
\* The handlers at the end of sync_cloudflare_account (errors += 1; if
\* credential_id: update_credential_sync_status(..., "failed", str(e)); raise)
\* followed by the handler of the caller in main (the two status writes of a
\* stored credential carry the same text; `ok` says that one of them succeeded):
\*   global unit, CloudflareError: total_errors += 1, the account loop is left;
\*   global unit, any other exception: main's outermost handler returns 1;
\*   stored credential: update_credential_sync_status(..., "failed", str(e)),
\*                      total_errors += 1, next credential.
\* A handler that leaves the credential loop instead of taking the next one.
user_except_leaving(m) ==
    [m EXCEPT !.total_errors = @ + 1, !.ci = Len(m.creds) + 1, !.pc = "users"]

\* A handler that passes over the credential after the one that failed.
user_except_skipping(m) ==
    [m EXCEPT !.total_errors = @ + 1, !.ci = @ + 2, !.pc = "users"]

user_except(m) == [m EXCEPT !.total_errors = @ + 1, !.ci = @ + 1, !.pc = "users"]

global_except(m) == [m EXCEPT !.total_errors = @ + 1, !.gi = Len(account_ids) + 1, !.pc = "global"]

\* try: cf_config = load_cloudflare_config(args.cf_config) ...
\* except (ConfigError, CloudflareError): total_errors += 1
MuLoadGlobalConfig ==
    /\ proc = "multi" /\ mu.pc = "cf_config"
    /\ mu' = IF load_cloudflare_config_raises(account_ids, files)
             THEN global_except(mu)
             ELSE [mu EXCEPT !.pc = "global"]
    /\ UNCHANGED <<cfgVars, rq, pg, cm, cf, storeVars, clock, runs, proc, main, lk, hist>>

AccountRaises(kind) ==
    /\ faults
    /\ IF mu.credential_id # 0
       THEN \E ok \in BOOLEAN :
               LET t == update_credential_sync_status(tx, mu.credential_id, "failed", kind,
                                                      clock, ok)
               IN  /\ tx' = t
                   /\ db' = t
                   /\ mu' = user_except([mu EXCEPT !.errors = @ + 1])
                   /\ proc' = proc
                   /\ hist' = [hist EXCEPT
                                  !.creds_raised = @ \cup {mu.credential_id},
                                  !.status_lost = IF ok THEN @ ELSE @ \cup {mu.credential_id}]
       ELSE IF kind = "CloudflareError"
            THEN /\ mu' = global_except([mu EXCEPT !.errors = @ + 1])
                 /\ UNCHANGED <<tx, db, proc, hist>>
            ELSE /\ MuAbort
                 /\ UNCHANGED <<db, hist>>

\* SELECT id FROM cloudflare_accounts WHERE cf_account_id = %s; if there is no row:
\* INSERT INTO cloudflare_accounts (cf_account_id, name) ...; db_conn.commit()
lookup_account(t, n, cf_account_id) ==
    IF \E r \in t.accounts : r.cf_account_id = cf_account_id
    THEN [t |-> t, n |-> n, commit |-> FALSE,
          id |-> (CHOOSE r \in t.accounts : r.cf_account_id = cf_account_id).id]
    ELSE [t |-> [t EXCEPT !.accounts = @ \cup
                    {[id |-> n.accounts, cf_account_id |-> cf_account_id,
                      name |-> "Account"]}],
          n |-> [n EXCEPT !.accounts = @ + 1], commit |-> TRUE, id |-> n.accounts]

AccountLookup ==
    /\ proc = "multi" /\ mu.pc = "account_lookup"
    /\ \/ LET u == lookup_account(tx, nextId, mu.cf_account_id)
          IN  /\ tx' = u.t
              /\ db' = IF u.commit THEN u.t ELSE db
              /\ nextId' = u.n
              /\ mu' = [mu EXCEPT !.account_db_id = u.id, !.pc = "list_zones"]
              /\ UNCHANGED <<proc, hist>>
       \/ /\ AccountRaises("DatabaseError")
          /\ nextId' = nextId
    /\ UNCHANGED <<cfgVars, rq, pg, cm, cf, clock, runs, main, lk>>

\* zones = cf_client.list_zones(cf_account_id)
MuListZones ==
    /\ proc = "multi" /\ mu.pc = "list_zones"
    /\ \/ /\ mu' = [mu EXCEPT !.zones = cf.zones[mu.cf_account_id], !.zi = 1, !.pc = "zone"]
          /\ UNCHANGED <<tx, db, proc, hist>>
       \/ AccountRaises("CloudflareError")
    /\ UNCHANGED <<cfgVars, rq, pg, cm, cf, nextId, clock, runs, main, lk>>

\* A status that reports success whatever the error count.
sync_status_always_success(errors) == "success"

\* return zones_synced, records_synced, errors; the caller adds them to the totals
\* and, for a stored credential, writes status "success" or "partial".
sync_status(errors) == IF errors = 0 THEN "success" ELSE "partial"

add_totals(m) ==
    [m EXCEPT !.total_zones = @ + m.zones_synced, !.total_records = @ + m.records_synced,
              !.total_errors = @ + m.errors]

AccountReturns ==
    /\ proc = "multi" /\ mu.pc = "zone" /\ mu.zi > Len(mu.zones)
    /\ IF mu.phase = "global"
       THEN /\ mu' = [add_totals(mu) EXCEPT !.gi = @ + 1, !.pc = "global"]
            /\ UNCHANGED <<tx, db, hist>>
       ELSE \E ok \in BOOLEAN :
               LET t == update_credential_sync_status(
                            tx, mu.credential_id, sync_status(mu.errors), None, clock, ok)
               IN  /\ tx' = t
                   /\ db' = t
                   /\ mu' = [add_totals(mu) EXCEPT !.ci = @ + 1, !.pc = "users"]
                   /\ hist' = [hist EXCEPT
                                  !.creds_returned = @ \cup {mu.credential_id},
                                  !.status_lost = IF ok THEN @
                                                  ELSE @ \cup {mu.credential_id}]
    /\ UNCHANGED <<cfgVars, rq, pg, cm, cf, nextId, clock, runs, proc, main, lk>>

\* if cf_domain and zone.get("name") != cf_domain: continue
FilterZone ==
    /\ proc = "multi" /\ mu.pc = "zone" /\ mu.zi <= Len(mu.zones)
    /\ mu.cf_domain # None /\ MuZone.name # mu.cf_domain
    /\ mu' = [mu EXCEPT !.zi = @ + 1]
    /\ UNCHANGED <<cfgVars, rq, pg, cm, cf, storeVars, clock, runs, proc, main, lk, hist>>

\* if not zone_id or not zone_name: errors += 1; continue
BadZone ==
    /\ proc = "multi" /\ mu.pc = "zone" /\ mu.zi <= Len(mu.zones)
    /\ ~(mu.cf_domain # None /\ MuZone.name # mu.cf_domain)
    /\ MuZone.id = None \/ MuZone.name = None
    /\ mu' = [mu EXCEPT !.errors = @ + 1, !.zi = @ + 1]
    /\ UNCHANGED <<cfgVars, rq, pg, cm, cf, storeVars, clock, runs, proc, main, lk, hist>>

\* INSERT INTO cloudflare_zones (cf_zone_id, cf_account_id, name, status, ...)
\* ON DUPLICATE KEY UPDATE name, status
mu_upsert_zone(t, n, account_db_id, zone) ==
    IF \E r \in t.zones : r.cf_zone_id = zone.id
    THEN LET old == CHOOSE r \in t.zones : r.cf_zone_id = zone.id
         IN  [t |-> [t EXCEPT !.zones = (@ \ {old}) \cup {[old EXCEPT !.name = zone.name]}],
              n |-> n]
    ELSE [t |-> [t EXCEPT !.zones = @ \cup
                    {[id |-> n.zones, account_id |-> account_db_id, cf_zone_id |-> zone.id,
                      name |-> zone.name, last_synced |-> 0]}],
          n |-> [n EXCEPT !.zones = @ + 1]]

\* the zone upsert; db_conn.commit(); zones_synced += 1
\* (an exception: the zone's handler counts one error and takes the next zone)
MuUpsertZone ==
    /\ proc = "multi" /\ mu.pc = "zone" /\ mu.zi <= Len(mu.zones)
    /\ ~(mu.cf_domain # None /\ MuZone.name # mu.cf_domain)
    /\ MuZone.id # None /\ MuZone.name # None
    /\ \/ LET u == mu_upsert_zone(tx, nextId, mu.account_db_id, MuZone)
          IN  /\ tx' = u.t
              /\ db' = u.t
              /\ nextId' = u.n
              /\ mu' = [mu EXCEPT !.zones_synced = @ + 1, !.pc = "list_records"]
       \/ /\ mu' = [mu EXCEPT !.errors = @ + 1, !.zi = @ + 1]
          /\ UNCHANGED storeVars
    /\ hist' = Logged(hist, "upsert_zone", MuZone.id)
    /\ UNCHANGED <<cfgVars, rq, pg, cm, cf, clock, runs, proc, main, lk>>

\* records = cf_client.list_records(zone_id)
MuListRecords ==
    /\ proc = "multi" /\ mu.pc = "list_records"
    /\ \/ /\ mu' = [mu EXCEPT !.records = cf.records[MuZone.id], !.ri = 1, !.pc = "record"]
          /\ hist' = hist
       \/ /\ mu' = [mu EXCEPT !.errors = @ + 1, !.zi = @ + 1, !.pc = "zone"]
          /\ hist' = [hist EXCEPT !.outcome[MuZone.id] = "fetch_failed"]
    /\ UNCHANGED <<cfgVars, rq, pg, cm, cf, storeVars, clock, runs, proc, main, lk>>

RecordsDone ==
    /\ proc = "multi" /\ mu.pc = "record" /\ mu.ri > Len(mu.records)
    /\ mu' = [mu EXCEPT !.zi = @ + 1, !.pc = "zone"]
    /\ hist' = [hist EXCEPT !.outcome[MuZone.id] = "synced"]
    /\ UNCHANGED <<cfgVars, rq, pg, cm, cf, storeVars, clock, runs, proc, main, lk>>

\* if not all([record_id, record_name, record_type, record_content]): errors += 1
BadRecord ==
    /\ proc = "multi" /\ mu.pc = "record" /\ mu.ri <= Len(mu.records)
    /\ MuRecord.id = None \/ MuRecord.content = None
    /\ mu' = [mu EXCEPT !.errors = @ + 1, !.ri = @ + 1]
    /\ UNCHANGED <<cfgVars, rq, pg, cm, cf, storeVars, clock, runs, proc, main, lk, hist>>

\* SELECT id FROM cloudflare_zones WHERE cf_zone_id = %s, then
\* INSERT INTO cloudflare_records ... ON DUPLICATE KEY UPDATE name, type, content, ...
\* (cf_record_id is the unique key)
mu_upsert_record(t, n, cf_zone_id, record) ==
    IF \E r \in t.records : r.cf_record_id = record.id
    THEN LET old == CHOOSE r \in t.records : r.cf_record_id = record.id
         IN  [t |-> [t EXCEPT !.records =
                        (@ \ {old}) \cup {[old EXCEPT !.content = record.content]}],
              n |-> n]
    ELSE [t |-> [t EXCEPT !.records = @ \cup
                    {[id |-> n.records, zone_id |-> ZoneLocalId(t, cf_zone_id),
                      cf_record_id |-> record.id, content |-> record.content]}],
          n |-> [n EXCEPT !.records = @ + 1]]

\* the record upsert; db_conn.commit(); records_synced += 1
\* (an exception: the record's handler counts one error and takes the next record)
MuUpsertRecord ==
    /\ proc = "multi" /\ mu.pc = "record" /\ mu.ri <= Len(mu.records)
    /\ MuRecord.id # None /\ MuRecord.content # None
    /\ \/ LET u == mu_upsert_record(tx, nextId, MuZone.id, MuRecord)
          IN  /\ tx' = u.t
              /\ db' = u.t
              /\ nextId' = u.n
              /\ mu' = [mu EXCEPT !.records_synced = @ + 1, !.ri = @ + 1]
       \/ /\ mu' = [mu EXCEPT !.errors = @ + 1, !.ri = @ + 1]
          /\ UNCHANGED storeVars
    /\ UNCHANGED <<cfgVars, rq, pg, cm, cf, clock, runs, proc, main, lk, hist>>

MultiStep ==
    \/ MuLoadDbConfig \/ MuConnect \/ MuLoadGlobalConfig \/ ConnectBegin \/ ConnectTry \/ ConnectExhausted
    \/ MuConnected \/ MuConnectFailed
    \/ GlobalNext \/ LoadUsers \/ UsersNext \/ MuReturn
    \/ AccountLookup \/ MuListZones \/ AccountReturns
    \/ FilterZone \/ BadZone \/ MuUpsertZone \/ MuListRecords
    \/ RecordsDone \/ BadRecord \/ MuUpsertRecord

\* ------------------------------- sync_pools_direct.py: sync_pools_for_zone
LkIdle ==
    [pc |-> "idle", zone_id |-> 0, local_zone_id |-> 0, cf_account_id |-> None,
     load_balancers |-> <<>>, pool_ids |-> {}, cf_pool_id |-> None, li |-> 1,
     synced_count |-> 0,
     \* what the pass did: the pool ids requested from the provider in order, those
     \* whose request gave no detail, the one whose request raised, the local ids
     \* of the pools written completely and of those whose origin inserts an
     \* exception interrupted, whether "except: pass" swallowed any exception, and
     \* whether the pass committed
     fetched |-> <<>>, failed |-> {}, transport |-> None, synced |-> {}, broken |-> {},
     swallowed |-> FALSE, committed |-> FALSE]

\* cursor.fetchall() of a SELECT without ORDER BY: the rows in primary-key order.
RECURSIVE RowsById(_)
RowsById(rows) ==
    IF rows = {} THEN <<>>
    ELSE LET m == CHOOSE x \in rows : \A y \in rows : x.id <= y.id
         IN  <<m>> \o RowsById(rows \ {m})

\* json.loads(default_pools_json) of a row whose column is not empty
pool_list(lb) == json_loads(lb.default_pools)

\* for lb in load_balancers: if default_pools_json: pool_list = json.loads(...);
\*     if isinstance(pool_list, list): pool_ids.update(pool_list)
collect_pool_ids(lbs) ==
    UNION {IF ~lbs[i].default_pools.null /\ pool_list(lbs[i]).t = "list"
           THEN SeqToSet(pool_list(lbs[i]).v)
           ELSE {} : i \in 1..Len(lbs)}

\* if default_pools_json: ... if cf_pool_id in pool_list
\* (membership in a list, occurrence in a string)
references(lb, cf_pool_id) ==
    /\ ~lb.default_pools.null
    /\ cf_pool_id \in SeqToSet(pool_list(lb).v)

\* A pool write that inserts without looking for the row first.
upsert_pool_always_insert(t, n, lb_id, cf_pool_id, pool_data) ==
    [t |-> [t EXCEPT !.pools = @ \cup
               {[id |-> n.pools, lb_id |-> lb_id, cf_pool_id |-> cf_pool_id,
                 name |-> pool_data.name]}],
     n |-> [n EXCEPT !.pools = @ + 1], pool_db_id |-> n.pools]

\* SELECT id FROM cloudflare_lb_pools WHERE lb_id = %s AND cf_pool_id = %s, then
\* UPDATE ... WHERE id = existing[0]  or  INSERT ...; pool_db_id = cursor.lastrowid
upsert_pool(t, n, lb_id, cf_pool_id, pool_data) ==
    IF \E r \in t.pools : r.lb_id = lb_id /\ r.cf_pool_id = cf_pool_id
    THEN LET old == CHOOSE r \in t.pools : r.lb_id = lb_id /\ r.cf_pool_id = cf_pool_id
         IN  [t |-> [t EXCEPT !.pools = (@ \ {old}) \cup
                        {[old EXCEPT !.name = pool_data.name]}],
              n |-> n, pool_db_id |-> old.id]
    ELSE [t |-> [t EXCEPT !.pools = @ \cup
                    {[id |-> n.pools, lb_id |-> lb_id, cf_pool_id |-> cf_pool_id,
                      name |-> pool_data.name]}],
          n |-> [n EXCEPT !.pools = @ + 1], pool_db_id |-> n.pools]

\* DELETE FROM cloudflare_lb_pool_origins WHERE pool_id = %s
delete_pool_origins(rows, pool_id) == {r \in rows : r.pool_id # pool_id}

\* for origin in origins: INSERT INTO cloudflare_lb_pool_origins ...
insert_pool_origins(rows, first, pool_id, origins) ==
    rows \cup {[id |-> first + i - 1, pool_id |-> pool_id,
                name |-> origins[i].name, address |-> origins[i].address]
               : i \in 1..Len(origins)}

\* The scheduler starts the linker for a local zone id; the provider is as the
\* reconciliation of this engine pass found it.
InvokePools(targets) ==
    /\ proc = "none"
    /\ runs < Len(plan) /\ plan[runs + 1] = "pools"
    /\ \E z \in targets : lk' = [LkIdle EXCEPT !.pc = "start", !.zone_id = z]
    /\ proc' = "pools"
    /\ runs' = runs + 1
    /\ clock' = clock + 1
    /\ UNCHANGED <<cfgVars, rq, pg, cm, cf, storeVars, main, mu, hist>>

\* return (or an exception leaving the function); finally: conn.close()
LkLeave ==
    /\ lk' = [lk EXCEPT !.pc = "exit"]
    /\ tx' = db
    /\ proc' = "none"
    /\ UNCHANGED <<db, nextId>>

\* conn = pymysql.connect(**db_config)
LkConnect ==
    /\ proc = "pools" /\ lk.pc = "start"
    /\ \/ /\ lk' = [lk EXCEPT !.pc = "zone"]
          /\ tx' = db
          /\ UNCHANGED <<db, nextId, proc>>
       \/ /\ faults
          /\ LkLeave
    /\ UNCHANGED <<cfgVars, rq, pg, cm, cf, clock, runs, main, mu, hist>>

\* SELECT z.id, z.name, a.cf_account_id FROM cloudflare_zones z JOIN
\* cloudflare_accounts a ON a.id = z.account_id WHERE z.id = %s
LkSelectZone ==
    /\ proc = "pools" /\ lk.pc = "zone"
    /\ \/ IF \E z \in tx.zones : \E a \in tx.accounts :
                 z.id = lk.zone_id /\ a.id = z.account_id
          THEN LET z == CHOOSE r \in tx.zones : r.id = lk.zone_id
                   a == CHOOSE r \in tx.accounts : r.id = z.account_id
               IN  /\ lk' = [lk EXCEPT !.local_zone_id = z.id,
                                       !.cf_account_id = a.cf_account_id, !.pc = "lbs"]
                   /\ UNCHANGED <<storeVars, proc>>
          ELSE LkLeave
       \/ /\ faults
          /\ LkLeave
    /\ UNCHANGED <<cfgVars, rq, pg, cm, cf, clock, runs, main, mu, hist>>

\* SELECT id, cf_lb_id, name, default_pools FROM cloudflare_load_balancers
\* WHERE zone_id = %s; the pool ids are collected from the rows
LkSelectBalancers ==
    /\ proc = "pools" /\ lk.pc = "lbs"
    /\ \/ LET rows == RowsById({r \in tx.lbs : r.zone_id = lk.local_zone_id})
          IN  IF rows = <<>>
              THEN LkLeave
              ELSE /\ lk' = [lk EXCEPT !.load_balancers = rows,
                                       !.pool_ids = collect_pool_ids(rows), !.pc = "pools"]
                   /\ UNCHANGED <<storeVars, proc>>
       \/ /\ faults
          /\ LkLeave
    /\ UNCHANGED <<cfgVars, rq, pg, cm, cf, clock, runs, main, mu, hist>>

\* cf_request: the "result" of the response, or None (here NoPool) when the status
\* is 400 or more, the body does not parse or "success" is not true (ok = FALSE),
\* or when the provider has no such pool.
cf_request(ok, cf_pool_id) == IF ok THEN cf.pools[cf_pool_id] ELSE NoPool

\* for cf_pool_id in pool_ids (a set: any order): pool_data = cf_request(...);
\* if not pool_data: continue.  requests.request itself may raise (no connection,
\* timeout): nothing in cf_request or in the loop catches that, the function is
\* left through its finally.
LkFetchPool ==
    /\ proc = "pools" /\ lk.pc = "pools" /\ lk.pool_ids # {}
    /\ \E p \in lk.pool_ids :
          \/ \E ok \in {TRUE} \cup {~faults} :
                /\ lk' = IF cf_request(ok, p).found
                         THEN [lk EXCEPT !.pool_ids = @ \ {p}, !.cf_pool_id = p, !.li = 1,
                                         !.fetched = Append(@, p), !.pc = "link"]
                         ELSE [lk EXCEPT !.pool_ids = @ \ {p}, !.fetched = Append(@, p),
                                         !.failed = @ \cup {p}]
                /\ UNCHANGED <<storeVars, proc>>
          \/ /\ faults
             /\ lk' = [lk EXCEPT !.fetched = Append(@, p), !.transport = p, !.pc = "exit"]
             /\ tx' = db
             /\ proc' = "none"
             /\ UNCHANGED <<db, nextId>>
    /\ UNCHANGED <<cfgVars, rq, pg, cm, cf, clock, runs, main, mu, hist>>

\* The frame after one pass of "for lb_id, ... in load_balancers" that did not break.
next_balancer(l) ==
    IF l.li < Len(l.load_balancers) THEN [l EXCEPT !.li = @ + 1]
    ELSE [l EXCEPT !.pc = "pools"]

\* One pass of the inner loop for the fetched pool: if the balancer references
\* the pool, the pool row is upserted and its origins are replaced, and the loop
\* is left (break).  An exception in the pass is swallowed (except: pass) with
\* whatever the statements before it changed, and the next balancer is taken.
LkTryBalancer ==
    /\ proc = "pools" /\ lk.pc = "link"
    /\ LET lb   == lk.load_balancers[lk.li]
           data == cf.pools[lk.cf_pool_id]
           u    == upsert_pool(tx, nextId, lb.id, lk.cf_pool_id, data)
       IN  IF ~references(lb, lk.cf_pool_id)
           THEN /\ lk' = next_balancer(lk)
                /\ UNCHANGED <<tx, nextId>>
           ELSE \/ /\ tx' = [u.t EXCEPT !.origins =
                               insert_pool_origins(delete_pool_origins(@, u.pool_db_id),
                                                   u.n.origins, u.pool_db_id, data.origins)]
                   /\ nextId' = [u.n EXCEPT !.origins = @ + Len(data.origins)]
                   /\ lk' = [lk EXCEPT !.synced_count = @ + 1, !.pc = "pools",
                                       !.synced = @ \cup {u.pool_db_id}]
                \/ /\ faults
                   /\ \/ /\ UNCHANGED <<tx, nextId>>
                         /\ lk' = next_balancer([lk EXCEPT !.swallowed = TRUE])
                      \/ /\ tx' = u.t
                         /\ nextId' = u.n
                         /\ lk' = next_balancer([lk EXCEPT !.swallowed = TRUE])
                      \/ \E k \in 0..(Len(data.origins) - 1) :
                            /\ lk' = next_balancer([lk EXCEPT !.swallowed = TRUE,
                                                              !.broken = @ \cup {u.pool_db_id}])
                            /\ tx' = [u.t EXCEPT !.origins =
                                        insert_pool_origins(
                                            delete_pool_origins(@, u.pool_db_id),
                                            u.n.origins, u.pool_db_id,
                                            SubSeq(data.origins, 1, k))]
                            /\ nextId' = [u.n EXCEPT !.origins = @ + k]
    /\ UNCHANGED <<cfgVars, rq, pg, cm, cf, db, clock, runs, proc, main, mu, hist>>

\* conn.commit(); finally: conn.close()
LkCommit ==
    /\ proc = "pools" /\ lk.pc = "pools" /\ lk.pool_ids = {}
    /\ \/ /\ db' = tx
          /\ lk' = [lk EXCEPT !.pc = "exit", !.committed = TRUE]
          /\ proc' = "none"
          /\ UNCHANGED <<tx, nextId>>
       \/ /\ faults
          /\ LkLeave
    /\ UNCHANGED <<cfgVars, rq, pg, cm, cf, clock, runs, main, mu, hist>>

LinkStep ==
    \/ LkConnect \/ LkSelectZone \/ LkSelectBalancers
    \/ LkFetchPool \/ LkTryBalancer \/ LkCommit

\* ------------------------------------------------------ specification: Spec
\* Repeated runs of sync_cloudflare_records.py against a changing provider.

InitStore ==
    /\ cm = CmIdle
    /\ cf = SnapFull
    /\ db = EmptyStore
    /\ tx = EmptyStore
    /\ nextId = FirstIds
    /\ clock = 0
    /\ runs = 0
    /\ proc = "none"
    /\ main = MainIdle
    /\ mu = MuIdle
    /\ lk = LkIdle
    /\ pg = PgIdle
    /\ rq = RqIdle
    /\ hist = NoHist

InitHosts ==
    /\ hosts = ConfiguredHosts
    /\ files = CompleteFiles
    /\ policy = "sequential"
    /\ accept \in {{}, {NumHosts}}

Init ==
    /\ InitHosts
    /\ account_ids = <<"a2", "a3">>
    /\ plan = [i \in 1..MaxRuns |-> "sync"]
    /\ faults = TRUE
    /\ InitStore

Next == InvokeSync(Snapshots) \/ SyncStep

Spec == Init /\ [][Next]_vars

\* -------------------------------------------------- specification: SpecWide
\* One run over two accounts, the first with the three zones A, B, C.
InitWide ==
    /\ InitHosts
    /\ account_ids = <<"a1", "a2">>
    /\ plan = [i \in 1..MaxWideRuns |-> "sync"]
    /\ faults = TRUE
    /\ InitStore

SpecWide == InitWide /\ [][Next]_vars

\* ------------------------------------------------- specification: SpecMulti
\* One run of sync_cloudflare_records_multi_user.py: the global credential set
\* with accounts a1 (zones A, B, C) and a3, then the stored credentials.
NumCreds == 2

CredentialTable(pick) ==
    {CredRow(i, pick[i] # "disabled", pick[i] # "manual",
             IF pick[i] = "damaged" THEN BadSecret(i) ELSE GoodSecret) : i \in 1..NumCreds}

CredentialTables ==
    {CredentialTable(pick) :
        pick \in [1..NumCreds -> {"good", "damaged", "disabled", "manual"}]}

InitMulti ==
    /\ InitHosts
    /\ account_ids = <<"a1", "a3">>
    /\ plan = <<"multi">>
    /\ faults = TRUE
    /\ cm = CmIdle
    /\ cf = SnapFull
    /\ \E rows \in CredentialTables :
          /\ db = [EmptyStore EXCEPT !.credentials = rows]
          /\ tx = db
    /\ nextId = FirstIds
    /\ clock = 0
    /\ runs = 0
    /\ proc = "none"
    /\ main = MainIdle
    /\ mu = MuIdle
    /\ lk = LkIdle
    /\ pg = PgIdle
    /\ rq = RqIdle
    /\ hist = NoHist

NextMulti == InvokeMulti(Snapshots) \/ MultiStep

SpecMulti == InitMulti /\ [][NextMulti]_vars

\* ----------------------------------------------- specification: SpecConnect
\* sync_cloudflare_records.py up to its database connection, for every policy a
\* configuration file can yield and every set of hosts that accept connections.
InitConnect ==
    /\ hosts = ConfiguredHosts
    /\ files \in {[CompleteFiles EXCEPT !.db_host_policy = raw] : raw \in RawPolicies}
    /\ policy = load_db_config_policy(files.db_host_policy)
    /\ accept \in SUBSET SeqToSet(ConfiguredHosts)
    /\ account_ids = <<"a2">>
    /\ plan = <<"sync">>
    /\ faults = FALSE
    /\ InitStore

NextConnect ==
    \/ InvokeSync({SnapFull})
    \/ MainLoadConfig \/ MainConnect \/ ConnectBegin \/ ConnectTry \/ ConnectExhausted
    \/ MainConnected \/ MainConnectFailed

SpecConnect == InitConnect /\ [][NextConnect]_vars

\* -------------------------------------------------- specification: SpecIdem
\* The engine (reconciliation of account a2, then the linker for one local zone
\* id) run twice against one provider snapshot, in an environment without faults.
EnginePlanTwice == <<"sync", "pools", "sync", "pools">>

\* The local zone ids the linker may be started for (the second names no zone).
LinkTargets == {1, 2}

InitIdem ==
    /\ hosts = ConfiguredHosts
    /\ files = CompleteFiles
    /\ policy = "sequential"
    /\ accept = {NumHosts}
    /\ account_ids = <<"a2">>
    /\ plan = EnginePlanTwice
    /\ faults = FALSE
    /\ InitStore

NextIdem ==
    \/ InvokeSync(IF runs = 0 THEN Snapshots ELSE {cf})
    \/ InvokePools(IF runs = 1 THEN LinkTargets ELSE {lk.zone_id})
    \/ MainLoadConfig \/ MainConnect \/ ConnectBegin \/ ConnectTry \/ MainConnected
    \/ ListZones \/ SyncAccountsReturn \/ ZonesDone \/ UpsertAccount
    \/ ListRecords \/ ListLoadBalancers \/ UpsertZone \/ DeleteRecords \/ InsertRecords
    \/ DeleteLoadBalancers \/ InsertLoadBalancers \/ MarkSynced \/ Commit \/ Summarise
    \/ LinkStep

SpecIdem == InitIdem /\ [][NextIdem]_vars

\* -------------------------------------------- specification: SpecMultiOrder
\* One run of sync_cloudflare_records_multi_user.py in which every stored
\* credential is enabled, set to auto-sync and decryptable.
InitMultiOrder ==
    /\ InitHosts
    /\ account_ids = <<"a1", "a3">>
    /\ plan = <<"multi">>
    /\ faults = TRUE
    /\ cm = CmIdle
    /\ cf = SnapFull
    /\ db = [EmptyStore EXCEPT !.credentials = CredentialTable([i \in 1..NumCreds |-> "good"])]
    /\ tx = db
    /\ nextId = FirstIds
    /\ clock = 0
    /\ runs = 0
    /\ proc = "none"
    /\ main = MainIdle
    /\ mu = MuIdle
    /\ lk = LkIdle
    /\ pg = PgIdle
    /\ rq = RqIdle
    /\ hist = NoHist

SpecMultiOrder == InitMultiOrder /\ [][NextMulti]_vars

\* ------------------------------------------- specification: SpecMultiStatus
\* One run of sync_cloudflare_records_multi_user.py with the global credential
\* set naming account a3 alone, for every table of stored credentials.
InitMultiStatus ==
    /\ InitHosts
    /\ account_ids = <<"a3">>
    /\ plan = <<"multi">>
    /\ faults = TRUE
    /\ cm = CmIdle
    /\ cf = SnapFull
    /\ \E rows \in CredentialTables :
          /\ db = [EmptyStore EXCEPT !.credentials = rows]
          /\ tx = db
    /\ nextId = FirstIds
    /\ clock = 0
    /\ runs = 0
    /\ proc = "none"
    /\ main = MainIdle
    /\ mu = MuIdle
    /\ lk = LkIdle
    /\ pg = PgIdle
    /\ rq = RqIdle
    /\ hist = NoHist

SpecMultiStatus == InitMultiStatus /\ [][NextMulti]_vars

\* -------------------------------------------- specification: SpecMultiTwice
\* sync_cloudflare_records_multi_user.py run twice with the global credential
\* alone (account a2, no stored credential), the provider changing in between.
MultiPlanTwice == <<"multi", "multi">>

InitMultiTwice ==
    /\ hosts = ConfiguredHosts
    /\ files = CompleteFiles
    /\ policy = "sequential"
    /\ accept = {NumHosts}
    /\ account_ids = <<"a2">>
    /\ plan = MultiPlanTwice
    /\ faults = FALSE
    /\ InitStore

NextMultiTwice ==
    \/ InvokeMulti(Snapshots)
    \/ MuLoadDbConfig \/ MuConnect \/ MuLoadGlobalConfig \/ ConnectBegin \/ ConnectTry \/ MuConnected
    \/ GlobalNext \/ LoadUsers \/ MuReturn
    \/ AccountLookup \/ MuListZones \/ AccountReturns
    \/ MuUpsertZone \/ MuListRecords \/ RecordsDone \/ MuUpsertRecord

SpecMultiTwice == InitMultiTwice /\ [][NextMultiTwice]_vars

\* ------------------------------------------------ specification: SpecConfig
\* One run of either reconciliation script for every content of the two
\* configuration files, with two stored credentials and no faults.
ConfigPlans == {<<"sync">>, <<"multi">>}

InitConfig ==
    /\ hosts = ConfiguredHosts
    /\ policy = "sequential"
    /\ accept = {NumHosts}
    /\ files \in ConfigFiles
    /\ account_ids \in {<<>>, <<"a2">>}
    /\ plan \in ConfigPlans
    /\ faults = FALSE
    /\ cm = CmIdle
    /\ cf = SnapFull
    /\ db = [EmptyStore EXCEPT !.credentials = CredentialTable([i \in 1..NumCreds |-> "good"])]
    /\ tx = db
    /\ nextId = FirstIds
    /\ clock = 0
    /\ runs = 0
    /\ proc = "none"
    /\ main = MainIdle
    /\ mu = MuIdle
    /\ lk = LkIdle
    /\ pg = PgIdle
    /\ rq = RqIdle
    /\ hist = NoHist

NextConfig ==
    \/ InvokeSync({SnapFull}) \/ InvokeMulti({SnapFull})
    \/ MainLoadConfig \/ MainConnect \/ ConnectBegin \/ ConnectTry \/ MainConnected
    \/ ListZones \/ SyncAccountsReturn \/ ZonesDone \/ UpsertAccount
    \/ ListRecords \/ ListLoadBalancers \/ UpsertZone \/ DeleteRecords \/ InsertRecords
    \/ DeleteLoadBalancers \/ InsertLoadBalancers \/ MarkSynced \/ Commit \/ Summarise
    \/ MuLoadDbConfig \/ MuConnect \/ MuLoadGlobalConfig \/ MuConnected
    \/ GlobalNext \/ LoadUsers \/ UsersNext \/ MuReturn
    \/ AccountLookup \/ MuListZones \/ AccountReturns \/ FilterZone
    \/ MuUpsertZone \/ MuListRecords \/ RecordsDone \/ MuUpsertRecord

SpecConfig == InitConfig /\ [][NextConfig]_vars

\* --------------------------------------------------- specification: SpecRun
\* One run of the single-credential script for the accounts a1 and a2, in which
\* every provider request and every database call returns or fails and nothing
\* interrupts the process; the process, once started, keeps taking steps.
RunPlan == <<"sync">>

InitRun ==
    /\ InitHosts
    /\ account_ids = <<"a1", "a2">>
    /\ plan = RunPlan
    /\ faults = TRUE
    /\ InitStore

RunStep ==
    \/ MainLoadConfig \/ MainConnect \/ ConnectBegin \/ ConnectTry \/ ConnectExhausted
    \/ MainConnected \/ MainConnectFailed
    \/ ListZones \/ SyncAccountsReturn \/ ZonesDone \/ SkipZone \/ UpsertAccount
    \/ ListRecords \/ ListLoadBalancers \/ UpsertZone \/ DeleteRecords \/ InsertRecords
    \/ DeleteLoadBalancers \/ InsertLoadBalancers \/ MarkSynced \/ Commit \/ Summarise

NextRun == InvokeSync(Snapshots) \/ RunStep

SpecRun == InitRun /\ [][NextRun]_vars /\ WF_vars(RunStep)

\* -------------------------------------------------- specification: SpecLink
\* One reconciliation of account a2 followed by one pass of the pool linker,
\* with provider, statement and transport faults.
LinkPlan == <<"sync", "pools">>

InitLink ==
    /\ hosts = ConfiguredHosts
    /\ files = CompleteFiles
    /\ policy = "sequential"
    /\ accept = {NumHosts}
    /\ account_ids = <<"a2">>
    /\ plan = LinkPlan
    /\ faults = TRUE
    /\ InitStore

NextLink ==
    \/ InvokeSync({SnapPools})
    \/ InvokePools(LinkTargets)
    \/ MainLoadConfig \/ MainConnect \/ ConnectBegin \/ ConnectTry \/ MainConnected
    \/ ListZones \/ SyncAccountsReturn \/ ZonesDone \/ UpsertAccount
    \/ ListRecords \/ ListLoadBalancers \/ UpsertZone \/ DeleteRecords \/ InsertRecords
    \/ DeleteLoadBalancers \/ InsertLoadBalancers \/ MarkSynced \/ Commit \/ Summarise
    \/ Interrupt
    \/ LinkStep

SpecLink == InitLink /\ [][NextLink]_vars

\* ------------------------------------------------ specification: SpecRelink
\* One reconciliation of account a2 followed by two passes of the pool linker,
\* in an environment without faults.
RelinkPlan == <<"sync", "pools", "pools">>

InitRelink ==
    /\ hosts = ConfiguredHosts
    /\ files = CompleteFiles
    /\ policy = "sequential"
    /\ accept = {NumHosts}
    /\ account_ids = <<"a2">>
    /\ plan = RelinkPlan
    /\ faults = FALSE
    /\ InitStore

NextRelink ==
    \/ InvokeSync({SnapPools})
    \/ InvokePools(LinkTargets)
    \/ MainLoadConfig \/ MainConnect \/ ConnectBegin \/ ConnectTry \/ MainConnected
    \/ ListZones \/ SyncAccountsReturn \/ ZonesDone \/ UpsertAccount
    \/ ListRecords \/ ListLoadBalancers \/ UpsertZone \/ DeleteRecords \/ InsertRecords
    \/ DeleteLoadBalancers \/ InsertLoadBalancers \/ MarkSynced \/ Commit \/ Summarise
    \/ LinkStep

SpecRelink == InitRelink /\ [][NextRelink]_vars

\* ------------------------------------------------- specification: SpecPages
\* One call of paginated_get against every listing the provider may serve.
InitPages ==
    /\ InitHosts
    /\ account_ids = <<"a2">>
    /\ plan = <<"sync">>
    /\ faults = TRUE
    /\ cm = CmIdle
    /\ cf = SnapFull
    /\ db = EmptyStore
    /\ tx = EmptyStore
    /\ nextId = FirstIds
    /\ clock = 0
    /\ runs = 0
    /\ proc = "none"
    /\ main = MainIdle
    /\ mu = MuIdle
    /\ lk = LkIdle
    /\ pg \in {PgCall(listing) : listing \in Listings}
    /\ rq = RqIdle
    /\ hist = NoHist

NextPages == PagedGetBegin \/ PagedGetRequest

SpecPages == InitPages /\ [][NextPages]_vars

\* ----------------------------------------------- specification: SpecRequest
\* CloudflareClient.request alone, for every response considered.
InitRequest ==
    /\ InitHosts
    /\ account_ids = <<"a2">>
    /\ plan = <<"sync">>
    /\ faults = TRUE
    /\ cm = CmIdle
    /\ cf = SnapFull
    /\ db = EmptyStore
    /\ tx = EmptyStore
    /\ nextId = FirstIds
    /\ clock = 0
    /\ runs = 0
    /\ proc = "none"
    /\ main = MainIdle
    /\ mu = MuIdle
    /\ lk = LkIdle
    /\ pg = PgIdle
    /\ rq \in {[RqIdle EXCEPT !.st = "call", !.resp = r] : r \in Responses}
    /\ hist = NoHist

NextRequest == RequestCall

SpecRequest == InitRequest /\ [][NextRequest]_vars

\* -------------------------------------------- specification: SpecMultiFetch
\* sync_cloudflare_records_multi_user.py run twice with the global credential
\* alone (account a2, no stored credential) in an environment with faults.
InitMultiFetch ==
    /\ hosts = ConfiguredHosts
    /\ files = CompleteFiles
    /\ policy = "sequential"
    /\ accept = {NumHosts}
    /\ account_ids = <<"a2">>
    /\ plan = MultiPlanTwice
    /\ faults = TRUE
    /\ InitStore

NextMultiFetch ==
    \/ InvokeMulti(Snapshots)
    \/ MuLoadDbConfig \/ MuConnect \/ MuLoadGlobalConfig \/ ConnectBegin \/ ConnectTry \/ MuConnected
    \/ GlobalNext \/ LoadUsers \/ MuReturn
    \/ AccountLookup \/ MuListZones \/ AccountReturns
    \/ MuUpsertZone \/ MuListRecords \/ RecordsDone \/ MuUpsertRecord

SpecMultiFetch == InitMultiFetch /\ [][NextMultiFetch]_vars

\* ------------------------------------------------ specification: SpecReplay
\* sync_cloudflare_records.py run twice over the accounts a1 and a2 without
\* faults; the provider is in either state at each run, so the second run finds
\* the store as either state left it.
ReplayPlan == <<"sync", "sync">>

InitReplay ==
    /\ hosts = ConfiguredHosts
    /\ files = CompleteFiles
    /\ policy = "sequential"
    /\ accept = {NumHosts}
    /\ account_ids = <<"a1", "a2">>
    /\ plan = ReplayPlan
    /\ faults = FALSE
    /\ InitStore

NextReplay ==
    \/ InvokeSync(Snapshots)
    \/ MainLoadConfig \/ MainConnect \/ ConnectBegin \/ ConnectTry \/ MainConnected
    \/ ListZones \/ SyncAccountsReturn \/ ZonesDone \/ SkipZone \/ UpsertAccount
    \/ ListRecords \/ ListLoadBalancers \/ UpsertZone \/ DeleteRecords \/ InsertRecords
    \/ DeleteLoadBalancers \/ InsertLoadBalancers \/ MarkSynced \/ Commit \/ Summarise

SpecReplay == InitReplay /\ [][NextReplay]_vars

\* ------------------------------------------------------------ observations
\* The Record / LoadBalancer rows of a provider zone.
RecordsOf(t, cf_zone_id) ==
    IF HasZone(t, cf_zone_id)
    THEN {r \in t.records : r.zone_id = ZoneLocalId(t, cf_zone_id)}
    ELSE {}

BalancersOf(t, cf_zone_id) ==
    IF HasZone(t, cf_zone_id)
    THEN {r \in t.lbs : r.zone_id = ZoneLocalId(t, cf_zone_id)}
    ELSE {}

RecordContent(rows) == {<<r.cf_record_id, r.content>> : r \in rows}
BalancerContent(rows) == {<<r.cf_lb_id, r.default_pools>> : r \in rows}

FetchedRecordContent(records) ==
    {<<records[i].id, records[i].content>> : i \in 1..Len(records)}

FetchedBalancerContent(balancers) ==
    {<<balancers[i].id,
       IF balancers[i].default_pools # JNull
       THEN json_dumps(balancers[i].default_pools) ELSE SqlNull>> : i \in 1..Len(balancers)}

\* What list_load_balancers handed to sync_zone for zone z in this run.
ReturnedBalancers(z) == IF z \in hist.lb_failed THEN <<>> ELSE cf.lbs[z]

\* C1: once sync_zone has completed for a zone in a run, the committed Record rows
\* of that zone are exactly the records the provider returned in that run (one row
\* per returned record, none besides), and likewise its LoadBalancer rows; rows of
\* an earlier run that the response no longer holds are gone, and an empty response
\* leaves no child row.
C1_ReplaceExact ==
    \A z \in ZoneIds :
        hist.outcome[z] = "committed" =>
            /\ HasZone(db, z)
            /\ RecordContent(RecordsOf(db, z)) = FetchedRecordContent(cf.records[z])
            /\ Cardinality(RecordsOf(db, z)) = Len(cf.records[z])
            /\ BalancerContent(BalancersOf(db, z)) =
                   FetchedBalancerContent(ReturnedBalancers(z))
            /\ Cardinality(BalancersOf(db, z)) = Len(ReturnedBalancers(z))

\* Zone D had five records and two load balancers committed, and the run that
\* just committed it fetched three records and no load balancer.
C1_Witness ==
    /\ hist.outcome["zD"] = "committed"
    /\ Cardinality(RecordsOf(hist.before, "zD")) = 5
    /\ Cardinality(BalancersOf(hist.before, "zD")) = 2
    /\ Cardinality(RecordsOf(db, "zD")) = 3
    /\ BalancersOf(db, "zD") = {}

\* C3: when the record fetch of zone B alone fails in a run over zones A, B, C,
\* zones A and C are committed and the run reports an error count of exactly 1.
C3_IsolationAndCount ==
    ( /\ main.pc = "exit" /\ main.exit = 0
      /\ cf = SnapFull
      /\ {z \in ZoneIds : hist.outcome[z] = "rolledback"} = {"zB"}
      /\ hist.list_failed = {} )
    => /\ hist.outcome["zA"] = "committed"
       /\ hist.outcome["zC"] = "committed"
       /\ "errors" \in DOMAIN main.summary
       /\ main.summary.errors = 1

\* C4: an exception raised by a database statement while a zone is synced does
\* not leave the zone loop: it is contained, counted, and the next zone is taken.
C4_ZoneExceptionContained ==
    \A z \in ZoneIds : hist.outcome[z] = "db_error" => hist.unwound = "no"

\* C2: in every committed state the Record set of a zone is the complete set of
\* an earlier commit (here: none, the store starts empty) or the complete set one
\* run fetched; no half-written zone is ever committed.
C2_AtomicReplace ==
    \A z \in ZoneIds :
        RecordContent(RecordsOf(db, z)) \in
            {{}} \cup {FetchedRecordContent(s.records[z]) : s \in Snapshots}

\* The stored credentials a run has to load: enabled, auto-sync, decryptable.
Loadable(t) ==
    {c.id : c \in {x \in t.credentials :
                     x.enabled /\ x.auto_sync /\ ~decrypt_raises(x.cf_api_key)}}

Undecryptable(t) ==
    {c.id : c \in {x \in t.credentials :
                     x.enabled /\ x.auto_sync /\ decrypt_raises(x.cf_api_key)}}

\* C6: a stored credential whose secret fails to decrypt is the only one skipped:
\* once the credential query has run, the run ends through its normal return and
\* by then every other enabled, auto-sync credential was loaded and handed to
\* sync_cloudflare_account, while the undecryptable ones were not.
C6_DecryptSkipsOnlyThatCredential ==
    (mu.pc = "exit" /\ hist.selected) =>
        /\ mu.exit = exit_code(mu.total_errors)
        /\ SeqToSet(mu.creds) = Loadable(db)
        /\ hist.creds_tried = Loadable(db)
        /\ hist.creds_returned \cup hist.creds_raised = Loadable(db)

\* Credential 1 fails to decrypt and credential 2 was synced with status success.
C6_Witness ==
    /\ mu.pc = "exit" /\ hist.selected
    /\ Undecryptable(db) = {1}
    /\ 2 \in hist.creds_returned
    /\ CredById(db, 2).last_sync_status = "success"

\* C7: an enabled credential whose secret fails to decrypt has status "failed"
\* and a non-empty error message when the run ends.
C7_DecryptFailureRecorded ==
    (mu.pc = "exit" /\ hist.selected) =>
        \A i \in Undecryptable(db) :
            /\ CredById(db, i).last_sync_status = "failed"
            /\ CredById(db, i).last_sync_error # None

\* C8: a stored credential whose call to sync_cloudflare_account raised carries
\* status "failed" and the text of the exception (whenever one of its status
\* writes reached the table), and the credentials after it in the loaded list are
\* processed all the same.
C8_FailedCredentialMarked ==
    /\ \A i \in hist.creds_raised \ hist.status_lost :
          /\ CredById(db, i).last_sync_status = "failed"
          /\ CredById(db, i).last_sync_error \in {"CloudflareError", "DatabaseError"}
    /\ (mu.pc = "exit" /\ hist.creds_raised # {}) =>
          SeqToSet(mu.creds) \subseteq hist.creds_tried

\* The first loaded credential raised and is marked failed; the second was
\* processed after it.
C8_Witness ==
    /\ mu.pc = "exit"
    /\ mu.creds = <<1, 2>>
    /\ 1 \in hist.creds_raised \ hist.status_lost
    /\ CredById(db, 1).last_sync_status = "failed"
    /\ 2 \in hist.creds_returned

\* C9: a failure to list the zones of one account skips that account only: when
\* the global credential set is finished, every configured account id has been
\* handed to sync_cloudflare_account.
C9_ListingFailureSkipsOneAccount ==
    (proc = "multi" /\ mu.phase = "users") =>
        SeqToSet(account_ids) \subseteq hist.accounts_tried

\* The rows of a table by content and provider keys: local ids and timestamps
\* are left out, a parent is named by its provider key.
ZoneKey(t, id) ==
    IF \E z \in t.zones : z.id = id
    THEN (CHOOSE z \in t.zones : z.id = id).cf_zone_id ELSE None

BalancerKey(t, id) ==
    IF \E b \in t.lbs : b.id = id
    THEN (CHOOSE b \in t.lbs : b.id = id).cf_lb_id ELSE None

PoolKey(t, id) ==
    IF \E q \in t.pools : q.id = id
    THEN LET q == CHOOSE r \in t.pools : r.id = id
         IN  <<BalancerKey(t, q.lb_id), q.cf_pool_id>>
    ELSE <<None, None>>

RecordRows(t) == {<<ZoneKey(t, r.zone_id), r.cf_record_id, r.content>> : r \in t.records}
BalancerRows(t) == {<<ZoneKey(t, r.zone_id), r.cf_lb_id, r.default_pools>> : r \in t.lbs}
OriginRows(t) == {<<PoolKey(t, r.pool_id), r.name, r.address>> : r \in t.origins}

SameRows(a, b) ==
    /\ RecordRows(a) = RecordRows(b)
    /\ Cardinality(a.records) = Cardinality(b.records)
    /\ BalancerRows(a) = BalancerRows(b)
    /\ Cardinality(a.lbs) = Cardinality(b.lbs)
    /\ OriginRows(a) = OriginRows(b)
    /\ Cardinality(a.origins) = Cardinality(b.origins)

C10_Failover ==
    cm.st \in {"returned", "raised"} =>
        /\ accept # {} => cm.st = "returned"
        /\ cm.st = "returned" =>
              /\ cm.tried # <<>>
              /\ cm.conn = cm.tried[Len(cm.tried)]
              /\ cm.conn \in accept
              /\ \A i \in 1..(Len(cm.tried) - 1) : cm.tried[i] \notin accept
              /\ cm.tried = SubSeq(cm.ordered, 1, Len(cm.tried))
        /\ (cm.st = "returned" /\ policy = "sequential" /\ accept = {NumHosts}) =>
              Len(cm.tried) = NumHosts

\* Sequential policy, only the last host accepts: connect returned its
\* connection after trying every host.
C10_Witness ==
    /\ cm.st = "returned"
    /\ policy = "sequential"
    /\ accept = {NumHosts}
    /\ cm.tried = hosts
    /\ cm.conn = NumHosts

\* The provider requests in the log of a run.
ProviderRequests(h) ==
    {i \in 1..Len(h.log) :
        h.log[i].ev \in {"list_zones", "list_records", "list_load_balancers"}}

\* C11: connect raises only when every configured host has been tried exactly
\* once and each refused; main then ends at once with exit status 1, and the run
\* has made no provider request and changed nothing in the store.
C11_ConnectExhausted ==
    cm.st = "raised" =>
        /\ cm.tried \in Perms(hosts)
        /\ \A i \in 1..Len(cm.tried) : cm.tried[i] \notin accept
        /\ main.pc \in {"connect", "exit"}
        /\ main.pc = "exit" => main.exit = 1 /\ proc = "none"
        /\ hist.log = <<>> /\ ProviderRequests(hist) = {}
        /\ db = hist.before /\ tx = db /\ nextId = FirstIds

\* No host accepts, the round-robin order started at the second host, and the
\* script has ended with status 1.
C11_Witness ==
    /\ cm.st = "raised"
    /\ policy = "rr"
    /\ cm.tried = Rotate(hosts, 1)
    /\ main.pc = "exit" /\ main.exit = 1

\* C14: the exit status is 0 only if the run recorded no error: no account whose
\* zone listing failed and no zone whose sync failed.
C14_ExitZeroOnlyWithoutErrors ==
    (main.pc = "exit" /\ main.exit = 0) =>
        /\ hist.list_failed = {}
        /\ \A z \in ZoneIds : hist.outcome[z] # "rolledback"

\* The concatenation of the result arrays of pages 1..n.
RECURSIVE FirstPages(_, _)
FirstPages(listing, n) ==
    IF n = 0 THEN <<>>
    ELSE FirstPages(listing, n - 1) \o result_or_empty(listing, n)

\* Every response received so far reported n total pages.
EveryResponseReports(n) ==
    \A i \in 1..Len(pg.asked) : pg.listing.info[pg.asked[i]] = Info(n)

\* C12: when every response reports N >= 1 total pages, paginated_get returns
\* after exactly N requests, for pages 1, 2, ..., N in this order, and what it
\* returns is the concatenation of the N result arrays in page order.
C12_PagesInOrder ==
    pg.st = "returned" =>
        \A n \in 1..MaxPages :
            EveryResponseReports(n) =>
                /\ pg.asked = [k \in 1..n |-> k]
                /\ pg.results = FirstPages(pg.listing, n)

\* Every response reported the largest page count and no result was null.
C12_Witness ==
    /\ pg.st = "returned"
    /\ EveryResponseReports(MaxPages)
    /\ pg.listing.null_page = 0
    /\ Len(pg.asked) = MaxPages
    /\ Len(pg.results) = (MaxPages * (MaxPages + 1)) \div 2

\* C13: when the first response carries no total page count, or zero,
\* paginated_get returns after that one request with that page's results; and
\* while every response reports the same count n the loop makes at most
\* max(n, 1) requests, each for the page after the last one asked.
C13_SinglePageAndTermination ==
    /\ (pg.st = "returned" /\ (~pg.listing.info[1].has \/ pg.listing.info[1].total_pages = 0)) =>
          /\ pg.asked = <<1>>
          /\ pg.results = result_or_empty(pg.listing, 1)
    /\ pg.st \in {"loop", "returned", "raised"} =>
          /\ \A n \in 0..MaxPages :
                EveryResponseReports(n) => Len(pg.asked) <= (IF n = 0 THEN 1 ELSE n)
          /\ pg.st = "loop" => pg.page = Len(pg.asked) + 1

\* The first response had no total_pages although a later page would have
\* reported several: one request was made.
C13_Witness ==
    /\ pg.st = "returned"
    /\ pg.listing.info[1] = NoInfo
    /\ pg.listing.info[2] = Info(MaxPages)
    /\ pg.asked = <<1>>
    /\ pg.results = Batch(1)

\* The names of the steps logged for unit u in the run, in order.
StepsOf(h, u) ==
    LET own == SelectSeq(h.log, LAMBDA e : e.unit = u)
    IN  [i \in 1..Len(own) |-> own[i].ev]

\* C15: a zone whose load-balancer listing failed is not rolled back for it: its
\* sync goes on with an empty list, its Records are replaced with the fetched set
\* and its transaction commits (it is committed by the end of every run that no
\* uncaught exception left); a zone whose record listing failed is rolled back
\* right after that request, with no write and no commit, its rows as before.
C15_SoftBalancerListing ==
    \A z \in ZoneIds :
        /\ z \in hist.lb_failed =>
              /\ hist.outcome[z] # "rolledback"
              /\ (main.pc = "exit" /\ hist.unwound = "no") => hist.outcome[z] = "committed"
              /\ hist.outcome[z] = "committed" =>
                    /\ RecordContent(RecordsOf(db, z)) = FetchedRecordContent(cf.records[z])
                    /\ Cardinality(RecordsOf(db, z)) = Len(cf.records[z])
                    /\ BalancersOf(db, z) = {}
        /\ hist.outcome[z] = "rolledback" =>
              /\ StepsOf(hist, z) = <<"upsert_account", "list_records", "rollback">>
              /\ RecordsOf(db, z) = RecordsOf(hist.before, z)
              /\ BalancersOf(db, z) = BalancersOf(hist.before, z)
              /\ {r \in db.zones : r.cf_zone_id = z} =
                     {r \in hist.before.zones : r.cf_zone_id = z}

\* In one run the load-balancer listing of zone D (which has load balancers at
\* the provider) failed and the zone was committed with its five records and no
\* load balancer, and the record listing of zone E failed and it was rolled back.
C15_Witness ==
    /\ "zD" \in hist.lb_failed
    /\ cf.lbs["zD"] # <<>>
    /\ hist.outcome["zD"] = "committed"
    /\ Cardinality(RecordsOf(db, "zD")) = 5
    /\ BalancersOf(db, "zD") = {}
    /\ hist.outcome["zE"] = "rolledback"

\* C16: on the multi-credential path, once a zone has been synced in a run in
\* which sync_cloudflare_account counted no error, every Record row of the zone
\* is one the provider returned in that run.
C16_NoStaleRecordMulti ==
    \A z \in ZoneIds :
        (hist.outcome[z] = "synced" /\ mu.errors = 0) =>
            RecordContent(RecordsOf(db, z)) \subseteq FetchedRecordContent(cf.records[z])

\* Every Zone row of t names an Account row of t, every Record and LoadBalancer
\* row a Zone row of t.
ParentsExist(t) ==
    /\ \A z \in t.zones : \E a \in t.accounts : a.id = z.account_id
    /\ \A r \in t.records : \E z \in t.zones : z.id = r.zone_id
    /\ \A l \in t.lbs : \E z \in t.zones : z.id = l.zone_id

\* Entry i of the log follows an entry `ev` for the same unit, with none of the
\* entries `ends` for that unit in between.
FollowsWithin(h, i, ev, ends) ==
    \E j \in 1..(i - 1) :
        /\ h.log[j].ev = ev /\ h.log[j].unit = h.log[i].unit
        /\ \A k \in (j + 1)..(i - 1) :
              ~(h.log[k].unit = h.log[i].unit /\ h.log[k].ev \in ends)

ZoneSteps ==
    <<"upsert_account", "list_records", "list_load_balancers", "upsert_zone",
      "delete_records", "insert_records", "delete_load_balancers",
      "insert_load_balancers", "mark_synced", "commit", "rollback">>

StepRank(ev) == CHOOSE i \in 1..Len(ZoneSteps) : ZoneSteps[i] = ev

\* C18: the steps of a zone occur in the order Fetch, UpsertZone, ReplaceRecords,
\* ReplaceLoadBalancers, MarkSynced, Commit, each at most once; a zone that
\* committed went through every one of them (the inserts when there was something
\* to insert) and carries the time of this run; a zone in which a step failed has
\* no Commit, and the committed rows of the zone are those the run found.
C18_ZoneStepOrder ==
    \A z \in ZoneIds :
        LET steps == StepsOf(hist, z)
            done  == {steps[i] : i \in 1..Len(steps)}
        IN  /\ \A i, j \in 1..Len(steps) : i < j => StepRank(steps[i]) < StepRank(steps[j])
            /\ "commit" \in done <=> hist.outcome[z] = "committed"
            /\ "commit" \in done =>
                  /\ {"list_records", "list_load_balancers", "upsert_zone", "delete_records",
                      "delete_load_balancers", "mark_synced"} \subseteq done
                  /\ "insert_records" \in done <=> cf.records[z] # <<>>
                  /\ "insert_load_balancers" \in done <=> ReturnedBalancers(z) # <<>>
                  /\ "rollback" \notin done
                  /\ \A r \in db.zones : r.cf_zone_id = z => r.last_synced = clock
            /\ hist.outcome[z] \in {"rolledback", "db_error"} =>
                  /\ "commit" \notin done
                  /\ RecordsOf(db, z) = RecordsOf(hist.before, z)
                  /\ BalancersOf(db, z) = BalancersOf(hist.before, z)
                  /\ {r \in db.zones : r.cf_zone_id = z} =
                         {r \in hist.before.zones : r.cf_zone_id = z}
            /\ hist.outcome[z] = "db_error" => tx = db /\ proc = "none"
            /\ "rollback" \in done => hist.outcome[z] = "rolledback"

\* Zone D went through all ten steps and committed; in the same run a statement
\* of zone E failed after its Zone upsert and zone E has no Commit.
C18_Witness ==
    /\ StepsOf(hist, "zD") = SubSeq(ZoneSteps, 1, 10)
    /\ hist.outcome["zD"] = "committed"
    /\ hist.outcome["zE"] = "db_error"
    /\ StepsOf(hist, "zE") =
           <<"upsert_account", "list_records", "list_load_balancers", "upsert_zone">>

\* A sequence with each run of equal neighbours reduced to one element.
RECURSIVE Collapse(_)
Collapse(s) ==
    IF Len(s) <= 1 THEN s
    ELSE IF s[1] = s[2] THEN Collapse(Tail(s))
         ELSE <<s[1]>> \o Collapse(Tail(s))

\* s can be had from t by leaving elements out.
RECURSIVE IsSubSeq(_, _)
IsSubSeq(s, t) ==
    IF Len(s) = 0 THEN TRUE
    ELSE IF Len(t) = 0 THEN FALSE
         ELSE IF Head(s) = Head(t) THEN IsSubSeq(Tail(s), Tail(t))
              ELSE IsSubSeq(s, Tail(t))

IsPrefix(s, t) == Len(s) <= Len(t) /\ \A i \in 1..Len(s) : s[i] = t[i]

\* The log entries that open an account: the zone listing of the single-credential
\* script, the call of sync_cloudflare_account of the multi-credential one.
AccountEntries(h) == {i \in 1..Len(h.log) : h.log[i].ev \in {"list_zones", "call"}}

AccountUnits(h) ==
    LET own == SelectSeq(h.log, LAMBDA e : e.ev \in {"list_zones", "call"})
    IN  [i \in 1..Len(own) |-> own[i].unit]

\* The zones logged between account entry i and the next account entry.
ZonesAfter(h, i) ==
    LET later == {j \in AccountEntries(h) : j > i}
        stop  == IF later = {} THEN Len(h.log) + 1
                 ELSE CHOOSE j \in later : \A k \in later : j <= k
    IN  [k \in 1..(stop - i - 1) |-> h.log[i + k].unit]

\* The ids of the zones the provider lists for an account, in list order.
ListedZoneIds(a) ==
    LET ids == [k \in 1..Len(cf.zones[a]) |-> cf.zones[a][k].id]
    IN  SelectSeq(ids, LAMBDA z : z # None)

StoredAccountIds(t) == {r.cf_account_id : r \in t.accounts}
StoredZoneIds(t) == {r.cf_zone_id : r \in t.zones}

\* The zones no configured account lists in the current provider state.
AbsentZones ==
    {z \in ZoneIds :
        \A a \in SeqToSet(account_ids) :
            \A k \in 1..Len(cf.zones[a]) : cf.zones[a][k].id # z}

\* C20: no step removes a provider account id or a provider zone id from the
\* committed store, and in a run whose provider responses do not list a zone, that
\* zone's Zone row and its Record and LoadBalancer rows stay as the run found them.
C20_NeverDeletesParents ==
    [][ /\ StoredAccountIds(db) \subseteq StoredAccountIds(db')
        /\ StoredZoneIds(db) \subseteq StoredZoneIds(db')
        /\ \A z \in AbsentZones' :
              /\ {r \in db'.zones : r.cf_zone_id = z} =
                     {r \in hist'.before.zones : r.cf_zone_id = z}
              /\ RecordsOf(db', z) = RecordsOf(hist'.before, z)
              /\ BalancersOf(db', z) = BalancersOf(hist'.before, z) ]_vars

\* Zone E was committed with its record by an earlier run; the run that just
\* ended listed account a3 without finding it, committed zone D, and zone E's
\* rows are still there.
C20_Witness ==
    /\ main.pc = "exit" /\ main.exit = 0
    /\ cf = SnapLater
    /\ hist.list_failed = {}
    /\ hist.outcome["zD"] = "committed"
    /\ "zE" \in AbsentZones
    /\ "zE" \in StoredZoneIds(db)
    /\ "a3" \in StoredAccountIds(db)
    /\ Cardinality(RecordsOf(db, "zE")) = 1

\* The pool ids the pass asked the provider for and got a detail of.
FetchedPools == SeqToSet(lk.fetched) \ (lk.failed \cup {lk.transport})

\* The load balancer row lists the pool id in a default_pools that is a list.
ListsPool(lb, cf_pool_id) ==
    /\ ~lb.default_pools.null
    /\ pool_list(lb).t = "list"
    /\ cf_pool_id \in SeqToSet(pool_list(lb).v)

\* The default_pools of the load balancer row is there and is not a list.
Malformed(lb) == ~lb.default_pools.null /\ pool_list(lb).t # "list"

OriginContent(t, pool_id) ==
    {<<r.name, r.address>> : r \in {x \in t.origins : x.pool_id = pool_id}}

FetchedOriginContent(pool_data) ==
    {<<pool_data.origins[i].name, pool_data.origins[i].address>> :
        i \in 1..Len(pool_data.origins)}

\* C21: in a linking pass that committed and in which no exception was swallowed,
\* every pool id was requested at most once, and for every fetched pool each load
\* balancer of the zone that lists it has a Pool row with the fetched origins.
C21_EveryReferencingBalancerLinked ==
    (lk.committed /\ ~lk.swallowed) =>
        /\ \A i, j \in 1..Len(lk.fetched) : lk.fetched[i] = lk.fetched[j] => i = j
        /\ \A p \in FetchedPools :
              \A i \in 1..Len(lk.load_balancers) :
                  ListsPool(lk.load_balancers[i], p) =>
                      \E r \in db.pools :
                          /\ r.lb_id = lk.load_balancers[i].id
                          /\ r.cf_pool_id = p
                          /\ OriginContent(db, r.id) = FetchedOriginContent(cf.pools[p])

\* C22: after a committed linking pass the Origin rows of every Pool the pass
\* wrote, those whose origin inserts failed part-way included, are exactly the
\* origins of the fetched pool detail.
C22_OriginsReplaced ==
    lk.committed =>
        \A r \in db.pools :
            r.id \in lk.synced \cup lk.broken =>
                OriginContent(db, r.id) = FetchedOriginContent(cf.pools[r.cf_pool_id])

\* C23: no step leaves two Pool rows for one (load balancer, provider pool id)
\* pair, in the committed tables or in the connection's view, and a pair that is
\* written again keeps the local id of its row.
C23_PoolUpserted ==
    [][ /\ \A t \in {db', tx'} :
              \A r1, r2 \in t.pools :
                  (r1.lb_id = r2.lb_id /\ r1.cf_pool_id = r2.cf_pool_id) => r1 = r2
        /\ \A r1 \in tx.pools : \A r2 \in tx'.pools :
              (r1.lb_id = r2.lb_id /\ r1.cf_pool_id = r2.cf_pool_id) => r2.id = r1.id ]_vars

\* The second of two linking passes has committed: it wrote the two pools of the
\* zone again, and no Pool row was added to those of the first pass.
C23_Witness ==
    /\ runs = 3
    /\ lk.committed
    /\ Cardinality(lk.synced) = 2
    /\ lk.synced = {r.id : r \in db.pools}
    /\ nextId.pools = 3

\* C24: a linking pass in which the fetch of a pool failed (no detail, or the
\* request raised) still requests every other pool id of the zone and commits,
\* and holds no Pool row for the pool id that failed.
C24_FetchFailureSkipsOnePool ==
    (lk.pc = "exit" /\ (lk.transport # None \/ (lk.failed # {} /\ lk.committed))) =>
        /\ lk.committed
        /\ SeqToSet(lk.fetched) = collect_pool_ids(lk.load_balancers)
        /\ \A r \in db.pools : r.cf_pool_id \notin lk.failed \cup {lk.transport}

\* C25: after a committed linking pass a load balancer whose default_pools is not
\* a list has no Pool row.
C25_MalformedBalancerSkipped ==
    lk.committed =>
        \A i \in 1..Len(lk.load_balancers) :
            Malformed(lk.load_balancers[i]) =>
                \A r \in db.pools : r.lb_id # lk.load_balancers[i].id

\* C26: while the global credential set is processed, and when the run ends in
\* that phase, no sync-status update has been made (none succeeded, none was
\* lost) and the Credential rows are those the run found, in the committed
\* tables and in the connection's view.
C26_GlobalUnitHasNoStatus ==
    (mu.pc # "idle" /\ mu.phase = "global") =>
        /\ mu.credential_id = 0
        /\ hist.creds_raised = {} /\ hist.creds_returned = {} /\ hist.status_lost = {}
        /\ db.credentials = hist.before.credentials
        /\ tx.credentials = hist.before.credentials

\* The global phase is over with a zone synced and an error counted, and a stored
\* credential is waiting to be loaded.
C26_Witness ==
    /\ mu.pc = "global" /\ mu.phase = "global"
    /\ mu.gi > Len(account_ids)
    /\ mu.total_zones >= 1
    /\ mu.total_errors >= 1
    /\ Loadable(db) # {}

\* The columns of a Credential row other than the three the status update sets.
Settings(c) ==
    [c EXCEPT !.last_sync_at = 0, !.last_sync_status = "", !.last_sync_error = ""]

NotEligible(t) == {c \in t.credentials : ~c.enabled \/ ~c.auto_sync}

\* The Credential table t differs from the one the run found at most in the three
\* status columns of rows that went through the status update, and not at all in
\* rows that are disabled or not auto-sync.
OnlyStatusChanged(t) ==
    /\ {c.id : c \in t.credentials} = {c.id : c \in hist.before.credentials}
    /\ Cardinality(t.credentials) = Cardinality(hist.before.credentials)
    /\ \A c \in t.credentials :
          /\ Settings(c) \in {Settings(b) : b \in hist.before.credentials}
          /\ c \notin hist.before.credentials =>
                c.id \in (hist.creds_raised \cup hist.creds_returned) \ hist.status_lost
    /\ NotEligible(t) = NotEligible(hist.before)

\* C27: throughout a run no Credential row is created or deleted, a row changes
\* only in last_sync_at, last_sync_status and last_sync_error and only through
\* the status update, and a credential that is disabled or not auto-sync is never
\* handed to sync_cloudflare_account and keeps its row as it was.
C27_CredentialRowsOnlyStatus ==
    mu.pc # "idle" =>
        /\ OnlyStatusChanged(db)
        /\ OnlyStatusChanged(tx)
        /\ hist.creds_tried \cap {c.id : c \in NotEligible(db)} = {}

\* A finished run that synced one credential and recorded its status, next to a
\* credential it must leave alone.
C27_Witness ==
    /\ mu.pc = "exit" /\ mu.exit = 0
    /\ hist.creds_returned \ hist.status_lost # {}
    /\ NotEligible(db) # {}
    /\ db.credentials # hist.before.credentials

\* Loading the static configuration raises ConfigError in this environment.
ConfigRaises ==
    load_cloudflare_config_raises(account_ids, files) \/ load_db_config_raises(files)

\* The exit status of the script started last.
ExitOf(script) == IF script = "sync" THEN main.exit ELSE mu.exit

\* C28: in a run whose configuration raises ConfigError no database connection
\* is attempted and no provider request or database write is made, the script
\* gets no further than loading its configuration, and it ends with a non-zero
\* exit status.
C28_ConfigErrorFatal ==
    (ConfigRaises /\ runs > 0) =>
        /\ cm = CmIdle
        /\ hist.log = <<>>
        /\ db = hist.before /\ tx = db
        /\ proc = "sync" => main.pc = "start"
        /\ proc = "multi" => mu.pc = "start"
        /\ proc = "none" => ExitOf(plan[runs]) > 0

\* The response has a 2xx status.
Is2xx(resp) == resp.status_code \in 200..299

\* C29: request returns only for a response that arrived with a 2xx status, a
\* body that parsed to an object and a true success flag; a transport failure,
\* a status outside 2xx, a body that is no JSON object, and a false or missing
\* success flag each end in CloudflareError.
C29_RequestOutcome ==
    rq.st = "done" =>
        LET resp == rq.resp
            good == /\ resp.sent /\ Is2xx(resp)
                    /\ resp.body.json /\ resp.body.object /\ resp.body.success = "true"
        IN  /\ rq.out = Returned => good
            /\ ~good => rq.out = Raised("CloudflareError")

\* The sequence o holds every element of the sequence h as often as h does.
SameCandidates(o, h) ==
    /\ Len(o) = Len(h)
    /\ \A x \in SeqToSet(h) \cup SeqToSet(o) :
          Cardinality({i \in 1..Len(o) : o[i] = x}) = Cardinality({i \in 1..Len(h) : h[i] = x})

\* The sequence o is h read cyclically from some position on.
IsRotation(o, h) ==
    /\ Len(o) = Len(h)
    /\ \E k \in 0..(Len(h) - 1) :
          \A i \in 1..Len(h) : o[i] = h[((i - 1 + k) % Len(h)) + 1]

\* C30: the ordering connect() works through is the configured list itself
\* under the sequential policy, a cyclic rotation of it under round-robin and a
\* rearrangement of it under least-used; under every policy it holds each
\* configured candidate exactly once.
C30_OrderedHosts ==
    cm.st \in {"loop", "returned", "raised"} =>
        /\ SameCandidates(cm.ordered, hosts)
        /\ policy = "sequential" => cm.ordered = hosts
        /\ policy \in {"round-robin", "roundrobin", "rr"} => IsRotation(cm.ordered, hosts)
        /\ policy \in VALID_POLICIES

\* Under least-used the first two candidates came out swapped, which is neither
\* the configured order nor a rotation of it, and the connection was made.
C30_Witness ==
    /\ cm.st = "returned"
    /\ policy = "least_used"
    /\ cm.ordered[1] = hosts[2] /\ cm.ordered[2] = hosts[1]
    /\ ~IsRotation(cm.ordered, hosts)

\* C31: with a db-host-policy string that is none of the known ones the policy
\* in force is sequential, the ordering connect() works through is the
\* configured list, and the hosts attempted so far are its first ones in order.
C31_UnknownPolicyIsSequential ==
    (files.db_host_policy \notin VALID_POLICIES /\ cm.st \in {"loop", "returned", "raised"}) =>
        /\ policy = "sequential"
        /\ cm.ordered = hosts
        /\ IsPrefix(cm.tried, hosts)

\* The configuration names the policy "fastest", only the last host accepts,
\* and the connection was made there after every earlier host in list order.
C31_Witness ==
    /\ files.db_host_policy = "fastest"
    /\ accept = {hosts[Len(hosts)]}
    /\ cm.st = "returned"
    /\ cm.tried = hosts

\* The provider requests of a run, in the order made.
RequestLog(h) ==
    SelectSeq(h.log, LAMBDA e : e.ev \in {"list_zones", "list_records", "list_load_balancers"})

\* The requests the listed zones zs call for: records, then load balancers, of
\* every zone that carries an id.
RECURSIVE ZoneRequests(_)
ZoneRequests(zs) ==
    IF zs = <<>> THEN <<>>
    ELSE (IF Head(zs).id = None THEN <<>>
          ELSE <<[ev |-> "list_records", unit |-> Head(zs).id],
                 [ev |-> "list_load_balancers", unit |-> Head(zs).id]>>)
         \o ZoneRequests(Tail(zs))

\* The requests the accounts ids call for when the provider is in state p.
RECURSIVE AccountRequests(_, _)
AccountRequests(ids, p) ==
    IF ids = <<>> THEN <<>>
    ELSE <<[ev |-> "list_zones", unit |-> Head(ids)]>>
         \o ZoneRequests(p.zones[Head(ids)]) \o AccountRequests(Tail(ids), p)

\* C32: in an environment without faults the provider requests a run has made
\* are at every moment the first ones of a sequence fixed by the account list
\* and the provider state alone, and all of it once the run has ended; so two
\* runs with the same account list and provider state make the same requests
\* whatever the Account, Zone, Record and LoadBalancer tables held before.
C32_RequestsIgnoreStore ==
    runs > 0 =>
        /\ IsPrefix(RequestLog(hist), AccountRequests(account_ids, cf))
        /\ (main.pc = "exit" /\ main.exit = 0) =>
              RequestLog(hist) = AccountRequests(account_ids, cf)

\* The second run has ended; it found the Zone table holding a zone the
\* provider no longer lists and lacking none of the listed ones.
C32_Witness ==
    /\ runs = 2 /\ main.pc = "exit" /\ main.exit = 0
    /\ cf = SnapLater
    /\ HasZone(hist.before, "zB")
    /\ HasZone(hist.before, "zA") /\ HasZone(hist.before, "zC") /\ HasZone(hist.before, "zD")
    /\ Len(RequestLog(hist)) > 2

\* The Zone row of a provider zone.
ZoneRowsOf(t, cf_zone_id) == {r \in t.zones : r.cf_zone_id = cf_zone_id}

\* The rows of a provider zone are in t what they are in u.
SameZoneRows(t, u, cf_zone_id) ==
    /\ ZoneRowsOf(t, cf_zone_id) = ZoneRowsOf(u, cf_zone_id)
    /\ RecordsOf(t, cf_zone_id) = RecordsOf(u, cf_zone_id)
    /\ BalancersOf(t, cf_zone_id) = BalancersOf(u, cf_zone_id)

\* C33: a zone whose record listing failed in the run has, in the committed
\* tables and in the connection's view, the Zone row, the Records and the
\* LoadBalancers the run found.
C33_FailedFetchChangesNothing ==
    \A z \in ZoneIds :
        hist.outcome[z] \in {"rolledback", "fetch_failed"} =>
            /\ SameZoneRows(db, hist.before, z)
            /\ SameZoneRows(tx, hist.before, z)

\* The zones the run committed.
CommittedZones == {z \in ZoneIds : hist.outcome[z] = "committed"}

\* The number of load balancers the provider lists for the zones zs.
RECURSIVE ListedBalancers(_)
ListedBalancers(zs) ==
    IF zs = {} THEN 0
    ELSE LET z == CHOOSE x \in zs : TRUE
         IN  Len(cf.lbs[z]) + ListedBalancers(zs \ {z})

\* C34: a zone committed in a run in which its load-balancer listing failed has
\* its Zone row and no LoadBalancer row, whatever rows an earlier run left; its
\* sync returned a load-balancer count of 0, and a run that ends normally exits
\* with status 0, counts every committed zone and counts load balancers only for
\* the zones whose listing succeeded.
C34_FailedListingEmptiesZone ==
    /\ \A z \in CommittedZones \cap hist.lb_failed :
          /\ HasZone(db, z)
          /\ BalancersOf(db, z) = {}
          /\ \A r \in hist.before.lbs : r.zone_id = ZoneLocalId(db, z) => r \notin db.lbs
          /\ (main.pc = "synced" /\ CurZone.id = z) => main.lb_count = 0
    /\ (main.pc = "exit" /\ hist.unwound = "no" /\ cm.st = "returned") =>
          /\ main.exit = 0
          /\ main.summary.zones = Cardinality(CommittedZones)
          /\ main.summary.load_balancers = ListedBalancers(CommittedZones \ hist.lb_failed)

\* The second run has ended normally; it found two LoadBalancer rows for zone
\* D, its load-balancer listing of zone D failed, and zone D is committed and
\* counted with no LoadBalancer row left.
C34_Witness ==
    /\ runs = 2 /\ main.pc = "exit" /\ main.exit = 0
    /\ "zD" \in hist.lb_failed
    /\ hist.outcome["zD"] = "committed"
    /\ Cardinality(BalancersOf(hist.before, "zD")) = 2
    /\ BalancersOf(db, "zD") = {}
    /\ main.summary.zones >= 1
    /\ main.summary.load_balancers = 0

\* No two Account rows of t share a provider account id and no two Zone rows a
\* provider zone id.
KeyedOnProviderId(t) ==
    /\ \A r, q \in t.accounts : r.cf_account_id = q.cf_account_id => r = q
    /\ \A r, q \in t.zones : r.cf_zone_id = q.cf_zone_id => r = q

\* A provider id that has a row in both t and u has the same local id in both.
SameLocalIds(t, u) ==
    /\ \A r \in t.accounts : \A q \in u.accounts :
          r.cf_account_id = q.cf_account_id => r.id = q.id
    /\ \A r \in t.zones : \A q \in u.zones : r.cf_zone_id = q.cf_zone_id => r.id = q.id

\* C35: no step leaves two Account rows with one provider account id or two
\* Zone rows with one provider zone id; a provider id keeps its local id from
\* step to step, so across runs; and the id upsert_account and upsert_zone hand
\* back is the local id of the row carrying the provider id, the one it had
\* before when the row was already there.
C35_UpsertKeyedOnProviderId ==
    [][ /\ KeyedOnProviderId(db') /\ KeyedOnProviderId(tx')
        /\ SameLocalIds(db, db') /\ SameLocalIds(tx, tx') /\ SameLocalIds(db, tx')
        /\ (main.pc = "upsert_zone" /\ main'.pc = "delete_records") =>
              /\ main'.local_zone_id = ZoneLocalId(tx', CurZone.id)
              /\ HasZone(tx, CurZone.id) => main'.local_zone_id = ZoneLocalId(tx, CurZone.id)
        /\ (main.pc = "zones" /\ main'.pc = "list_records") =>
              \E r \in tx'.accounts :
                  /\ r.cf_account_id = account_data(CurZone, CurAccount).id
                  /\ r.id = main'.db_account_id ]_vars

\* A second run has upserted zone D, which the first run stored, under another
\* name and got back the local id the zone has had since.
C35_Witness ==
    /\ runs = 2 /\ main.pc = "delete_records"
    /\ CurZone.id = "zD"
    /\ HasZone(hist.before, "zD")
    /\ main.local_zone_id = ZoneLocalId(hist.before, "zD")
    /\ \E r \in tx.zones : r.cf_zone_id = "zD" /\ r.id = main.local_zone_id
                           /\ r \notin hist.before.zones

\* C36: the Zone row of a zone committed in the run carries the run's time as
\* last_synced; the Zone row of any other zone, whether skipped, rolled back,
\* interrupted or never listed, is the one the run found, so a committed
\* last_synced of the run's time belongs to a committed zone; and while the run
\* lasts and when it ends normally the summary counts exactly the committed
\* zones (the one just committed being counted in the next step).
C36_LastSyncedIffCommitted ==
    runs > 0 /\ plan[runs] = "sync" =>
        /\ \A z \in ZoneIds :
              /\ z \in CommittedZones =>
                    /\ HasZone(db, z)
                    /\ \A r \in ZoneRowsOf(db, z) : r.last_synced = clock
              /\ z \notin CommittedZones =>
                    ZoneRowsOf(db, z) = ZoneRowsOf(hist.before, z)
        /\ \A r \in db.zones : r.last_synced = clock => r.cf_zone_id \in CommittedZones
        /\ (proc = "sync" \/ (main.exit = 0 /\ hist.unwound = "no")) =>
              main.summary.zones + (IF main.pc = "synced" THEN 1 ELSE 0)
                  = Cardinality(CommittedZones)

\* The second run has ended normally: zone D was committed and stamped with the
\* run's time, zone E was rolled back and still carries the time of the first
\* run, and the summary counts one zone.
C36_Witness ==
    /\ runs = 2 /\ main.pc = "exit" /\ main.exit = 0
    /\ hist.outcome["zD"] = "committed" /\ hist.outcome["zE"] = "rolledback"
    /\ \A r \in ZoneRowsOf(db, "zD") : r.last_synced = clock
    /\ \E r \in ZoneRowsOf(db, "zE") : r.last_synced > 0 /\ r.last_synced < clock
    /\ main.summary.zones = 1

\* The stored credentials that were processed in the run and whose status write
\* reached the table.
StatusWritten == (hist.creds_returned \cup hist.creds_raised) \ hist.status_lost

\* The status of every processed credential fits the way its processing ended.
StatusFits ==
    /\ hist.creds_returned \cap hist.creds_raised = {}
    /\ \A i \in StatusWritten :
          LET row == CredById(db, i)
          IN  /\ row.last_sync_at = clock
              /\ row.last_sync_status = "failed" <=> i \in hist.creds_raised
              /\ row.last_sync_status \in {"success", "partial"} <=> i \in hist.creds_returned
              /\ i \in hist.creds_returned => row.last_sync_error = None
              /\ (mu.pc = "users" /\ mu.credential_id = i /\ i \in hist.creds_returned) =>
                    /\ row.last_sync_status = "success" <=> mu.errors = 0
                    /\ row.last_sync_status = "partial" <=> mu.errors >= 1

\* C37: after a stored credential has been processed (and its status write has
\* reached the table) its status is failed exactly if its processing raised,
\* and otherwise success exactly if the unit counted no error and partial
\* exactly if it counted at least one; and no step changes the row of a
\* credential other than the one being processed, so a status once written
\* stays to the end of the run.
C37_StatusReflectsOutcome ==
    [][ /\ StatusFits'
        /\ \A c \in db.credentials :
              (c.id # mu.credential_id \/ mu.pc \in {"users", "exit"}) => c \in db'.credentials
      ]_vars

\* The run has ended: the first credential completed with an error and is
\* marked partial, the second raised and is marked failed.
C37_Witness ==
    /\ mu.pc = "exit"
    /\ mu.creds = <<1, 2>>
    /\ 1 \in hist.creds_returned \ hist.status_lost
    /\ CredById(db, 1).last_sync_status = "partial"
    /\ 2 \in hist.creds_raised \ hist.status_lost
    /\ CredById(db, 2).last_sync_status = "failed"

\* Every Pool row of the tables t names a LoadBalancer row of t and every
\* Origin row a Pool row of t.
ChildrenHaveParents(t) ==
    /\ \A p \in t.pools : \E l \in t.lbs : l.id = p.lb_id
    /\ \A o \in t.origins : \E p \in t.pools : p.id = o.pool_id

ListedAccounts ==
    {a \in Accounts : \E i \in 1..Len(hist.log) :
                         hist.log[i].ev = "list_zones" /\ hist.log[i].unit = a}
    \ hist.list_failed

\* Every zone of every listed account was skipped for want of an id, committed
\* or rolled back.
ZonesSettled ==
    \A a \in ListedAccounts : \A i \in 1..Len(cf.zones[a]) :
        \/ cf.zones[a][i].id = None
        \/ hist.outcome[cf.zones[a][i].id] \in {"committed", "rolledback"}

\* A started run of the script reaches its end (the process keeps taking steps
\* and every call returns or fails).
RunTerminates == (proc = "sync") ~> (proc = "none")

\* C39: a started run reaches its end, and at its end every zone of every
\* listed account is committed, rolled back or skipped and the connection is
\* closed (nothing uncommitted is left in it).
C39_RunEndsWithZonesSettled ==
    (proc = "sync") ~> (proc = "none" /\ ZonesSettled /\ tx = db)

====
